---- MODULE Spec2Model ----
(***************************************************************************)
(* Model of the classification pipeline of the Brain Tumor Detection       *)
(* backend (src/app.py): get_image_hash and classify_tumor_type, and the   *)
(* request handlers built on them: predict, generate_report, signup,       *)
(* login and test_db, with the users table they share.                     *)
(*                                                                         *)
(* Representation of numbers.  TLC integers are 32-bit signed, while the   *)
(* hash accumulator ranges over 0..2^32-1 and probabilities are IEEE-754   *)
(* doubles.  Both are therefore kept in limbs:                             *)
(*   - a 32-bit unsigned value is [hi, lo] with value hi*2^16 + lo;        *)
(*   - a non-negative double is [m2, m1, m0, e] with value                 *)
(*     (m2*2^48 + m1*2^24 + m0) * 2^e, the 53-bit significand normalised   *)
(*     (16 <= m2 < 32) unless the value is zero.                           *)
(* An identifier (a base64 string) is the sequence of its character codes. *)
(*                                                                         *)
(* Four specifications share the variables: Spec drives the two pure       *)
(* functions, SpecReport the generate_report handler serving one request,  *)
(* SpecAuth the handlers that use the users table, SpecParallel two        *)
(* generate_report requests and a predict request served by threads.       *)
(* Each leaves the variables of the others at rest.                        *)
(***************************************************************************)
EXTENDS Integers, Sequences, FiniteSets, TLC

VARIABLES
    pc,             \* position of the driver: which calls have completed
    probability,    \* argument `probability` of classify_tumor_type, once called
    image_base64,   \* argument `image_base64` of classify_tumor_type / get_image_hash
    hash_value,     \* value returned by get_image_hash(image_base64)
    tumor_info,     \* value returned by classify_tumor_type(probability, image_base64)
    other_info,     \* value returned by an intervening call with other arguments
    again_info,     \* value returned by a later call with the same arguments
    \* generate_report (one request)
    request,            \* the JSON body of the request
    rpc,                \* position of the handler
    idx,                \* loop index of the `for idx, prob in enumerate(...)` loop
    positive_count,
    negative_count,
    high_risk_count,
    critical_risk_count,
    tumor_types_found,  \* dict: tumor type -> number of positive items
    elements,           \* the flowables appended to the document so far
    response,           \* what the handler returned
    parked,             \* the locals of a second generate_report request, served
                        \* by another thread, while that thread does not run
    \* predict (one request)
    predict_request,    \* the JSON body of the request
    predict_response,   \* what the handler returned
    \* the users table of users.db
    users,              \* the rows, in order of insertion
    \* signup, login, test_db: the request each client has in flight
    apc,                \* client -> position of the handler serving it
    areq,               \* client -> the request
    aresp,              \* client -> what the handler returned
    registered          \* history: the signups answered 201, in order, each
                        \* with the id and email answered and the password sent

classifyVars ==
    <<pc, probability, image_base64, hash_value, tumor_info, other_info, again_info>>

reportVars ==
    <<request, rpc, idx, positive_count, negative_count, high_risk_count,
      critical_risk_count, tumor_types_found, elements, response>>

predictVars == <<predict_request, predict_response>>

authVars == <<apc, areq, aresp, registered>>

vars == <<classifyVars, reportVars, parked, predictVars, users, authVars>>

----------------------------------------------------------------------------
(* Bounds of the checked input space *)

\* longest tail appended to a generated identifier body
MaxTail == 2
\* how many neighbouring doubles on each side of a bucket boundary are tried
ProbSpread == 1

----------------------------------------------------------------------------
(* 32-bit unsigned arithmetic in 16-bit limbs *)

LimbBase == 2^16

U32(hi, lo) == [hi |-> hi, lo |-> lo]

IsU32(h) == /\ h.hi \in 0..(LimbBase - 1)
            /\ h.lo \in 0..(LimbBase - 1)

\* h % n for a small positive n
U32Mod(h, n) == (((h.hi % n) * (LimbBase % n)) + (h.lo % n)) % n

\* characters of the identifier that enter the hash: base64_string[:100]
HashPrefixLen == 100

Take(s, n) == IF Len(s) > n THEN SubSeq(s, 1, n) ELSE s

\* (faulty variant: the whole identifier enters the hash)
TruncateNone(base64_string) == base64_string
\* hash_str = base64_string[:100] if len(base64_string) > 100 else base64_string
hash_str(base64_string) ==
    IF Len(base64_string) > HashPrefixLen
    THEN SubSeq(base64_string, 1, HashPrefixLen)
    ELSE base64_string

\* (faulty variant: a shift by 4, i.e. h*15 + c)
HashStepShift4(h, c) ==
    LET tlo == ((h.lo * 16) - h.lo) + c
        thi == ((h.hi * 16) - h.hi) + (tlo \div LimbBase)
    IN  U32(thi % LimbBase, tlo % LimbBase)
\* one round of the loop body:
\*   hash_value = ((hash_value << 5) - hash_value) + ord(char)
\*   hash_value = hash_value & 0xFFFFFFFF
\* (h << 5) - h + c is computed limb-wise; it is never negative, and the mask
\* keeps its low 32 bits.
HashStep(h, c) ==
    LET tlo == ((h.lo * 32) - h.lo) + c
        thi == ((h.hi * 32) - h.hi) + (tlo \div LimbBase)
    IN  U32(thi % LimbBase, tlo % LimbBase)

\* the for loop over hash_str: the rounds for the characters number i..j, in
\* order, from accumulator h.  (The rounds i..mid are followed by the rounds
\* mid+1..j, which is the loop's left-to-right order; splitting the range in
\* halves only keeps the evaluation shallow, and the test on `left`, true of
\* every masked accumulator, makes TLC compute it before going on.)
RECURSIVE HashLoop(_, _, _, _)
HashLoop(h, s, i, j) ==
    IF i > j THEN h
    ELSE IF i = j THEN HashStep(h, s[i])
    ELSE LET mid  == (i + j) \div 2
             left == HashLoop(h, s, i, mid)
         IN  IF IsU32(left) THEN HashLoop(left, s, mid + 1, j) ELSE left

\* abs(hash_value): the accumulator is a non-negative Python int after the
\* mask, so abs returns it unchanged.
PyAbs(h) == h

get_image_hash(base64_string) ==
    LET s == hash_str(base64_string)
    IN  PyAbs(HashLoop(U32(0, 0), s, 1, Len(s)))

----------------------------------------------------------------------------
(* IEEE-754 doubles (non-negative), significand in 24-bit limbs *)

FloatBase == 2^24

Dbl(m2, m1, m0, e) == [m2 |-> m2, m1 |-> m1, m0 |-> m0, e |-> e]

FloatZero == Dbl(0, 0, 0, 0)

IsFloatZero(x) == x.m2 = 0 /\ x.m1 = 0 /\ x.m0 = 0

\* x < y on non-negative doubles
FloatLT(x, y) ==
    IF IsFloatZero(y) THEN FALSE
    ELSE IF IsFloatZero(x) THEN TRUE
    ELSE \/ x.e < y.e
         \/ /\ x.e = y.e
            /\ \/ x.m2 < y.m2
               \/ x.m2 = y.m2 /\ x.m1 < y.m1
               \/ x.m2 = y.m2 /\ x.m1 = y.m1 /\ x.m0 < y.m0

FloatGT(x, y) == FloatLT(y, x)
FloatLE(x, y) == ~FloatLT(y, x)

\* the significand plus one unit in the last place, renormalised
SigIncrement(m2, m1, m0, e) ==
    IF m0 + 1 < FloatBase THEN Dbl(m2, m1, m0 + 1, e)
    ELSE IF m1 + 1 < FloatBase THEN Dbl(m2, m1 + 1, 0, e)
    ELSE IF m2 + 1 < 32 THEN Dbl(m2 + 1, 0, 0, e)
    ELSE Dbl(16, 0, 0, e + 1)

\* the double of a small positive integer n (exact)
RECURSIVE Normalise(_)
Normalise(x) ==
    IF x.m2 >= 16 THEN x
    ELSE Normalise(Dbl((x.m2 * 2) + ((x.m1 * 2) \div FloatBase),
                       ((x.m1 * 2) % FloatBase) + ((x.m0 * 2) \div FloatBase),
                       (x.m0 * 2) % FloatBase,
                       x.e - 1))

FloatOfInt(n) == IF n = 0 THEN FloatZero ELSE Normalise(Dbl(0, 0, n, 0))

\* x * n for a double x and a small positive integer n (n < 128): the exact
\* product, rounded to 53 bits to nearest, ties to even, as the float
\* multiplication by float(n) does.
FloatTimesInt(x, n) ==
    IF IsFloatZero(x) THEN FloatZero
    ELSE
    LET t0 == x.m0 * n
        t1 == (x.m1 * n) + (t0 \div FloatBase)
        p0 == t0 % FloatBase
        p1 == t1 % FloatBase
        p2 == (x.m2 * n) + (t1 \div FloatBase)
        s  == CHOOSE k \in 0..7 : (p2 \div (2^k)) \in 16..31
        r  == p0 % (2^s)
        q0 == (p0 \div (2^s)) + ((p1 % (2^s)) * (FloatBase \div (2^s)))
        q1 == (p1 \div (2^s)) + ((p2 % (2^s)) * (FloatBase \div (2^s)))
        q2 == p2 \div (2^s)
        roundUp == /\ s > 0
                   /\ \/ 2 * r > 2^s
                      \/ 2 * r = 2^s /\ q0 % 2 = 1
    IN  IF roundUp THEN SigIncrement(q2, q1, q0, x.e + s)
        ELSE Dbl(q2, q1, q0, x.e + s)

\* the neighbouring doubles of a positive double
NextUp(x) == SigIncrement(x.m2, x.m1, x.m0, x.e)

NextDown(x) ==
    IF x.m0 > 0 THEN Dbl(x.m2, x.m1, x.m0 - 1, x.e)
    ELSE IF x.m1 > 0 THEN Dbl(x.m2, x.m1 - 1, FloatBase - 1, x.e)
    ELSE IF x.m2 > 16 THEN Dbl(x.m2 - 1, FloatBase - 1, FloatBase - 1, x.e)
    ELSE Dbl(31, FloatBase - 1, FloatBase - 1, x.e - 1)

RECURSIVE Nudge(_, _)
Nudge(x, k) ==
    IF k = 0 THEN x
    ELSE IF k > 0 THEN Nudge(NextUp(x), k - 1)
    ELSE Nudge(NextDown(x), k + 1)

\* x - y for doubles x >= y >= 0 whose exponents differ by less than 24: the
\* exact difference, rounded to 53 bits to nearest, ties to even
FloatMinus(x, y) ==
    IF IsFloatZero(y) THEN x
    ELSE
    LET d  == x.e - y.e
        up == 2^d
        dn == FloatBase \div up
        a0 == (x.m0 % dn) * up
        a1 == ((x.m1 % dn) * up) + (x.m0 \div dn)
        a2 == ((x.m2 % dn) * up) + (x.m1 \div dn)
        a3 == x.m2 \div dn
        b0 == IF a0 < y.m0 THEN 1 ELSE 0
        r0 == (a0 + (b0 * FloatBase)) - y.m0
        b1 == IF a1 < y.m1 + b0 THEN 1 ELSE 0
        r1 == (a1 + (b1 * FloatBase)) - (y.m1 + b0)
        b2 == IF a2 < y.m2 + b1 THEN 1 ELSE 0
        r2 == (a2 + (b2 * FloatBase)) - (y.m2 + b1)
        r3 == a3 - b2
        top == (r3 * FloatBase) + r2
    IN  IF top = 0 /\ r1 = 0 /\ r0 = 0 THEN FloatZero
        ELSE IF top < 32 THEN Normalise(Dbl(top, r1, r0, y.e))
        ELSE
        LET s  == CHOOSE k \in 1..23 : (top \div (2^k)) \in 16..31
            r  == r0 % (2^s)
            q0 == (r0 \div (2^s)) + ((r1 % (2^s)) * (FloatBase \div (2^s)))
            q1 == (r1 \div (2^s)) + ((r2 % (2^s)) * (FloatBase \div (2^s)))
            q2 == top \div (2^s)
            roundUp == \/ 2 * r > 2^s
                       \/ 2 * r = 2^s /\ q0 % 2 = 1
        IN  IF roundUp THEN SigIncrement(q2, q1, q0, y.e + s)
            ELSE Dbl(q2, q1, q0, y.e + s)

\* f"{x:.2f}" for a double 32 <= x < 128, as the number of hundredths shown:
\* x * 100 exactly, rounded to an integer to nearest, ties to even
PyFormat2f(x) ==
    LET t0 == x.m0 * 100
        t1 == (x.m1 * 100) + (t0 \div FloatBase)
        p0 == t0 % FloatBase
        p1 == t1 % FloatBase
        p2 == (x.m2 * 100) + (t1 \div FloatBase)
        j  == (0 - x.e) - 24
        q  == (p2 * (FloatBase \div (2^j))) + (p1 \div (2^j))
        rh == p1 % (2^j)
        half == 2^(j - 1)
        roundUp == \/ rh > half
                   \/ rh = half /\ p0 > 0
                   \/ rh = half /\ p0 = 0 /\ q % 2 = 1
    IN  IF roundUp THEN q + 1 ELSE q

----------------------------------------------------------------------------
(* classify_tumor_type: the fixed records.  A record is modelled by its     *)
(* 'type', 'severity', 'risk_level' and 'color' entries; the free-text      *)
(* entries ('description', 'characteristics', 'treatment') are fixed per    *)
(* 'type' and are left out.                                                 *)

Info(type, severity, color, risk_level) ==
    [type |-> type, severity |-> severity, color |-> color, risk_level |-> risk_level]

no_tumor ==
    Info("No Tumor Detected", "Normal", "green", "No Risk")

glioblastoma ==
    Info("Glioblastoma (Grade IV Glioma)", "Critical Risk", "red", "Critical")

high_grade_astrocytoma ==
    Info("High-Grade Astrocytoma (Grade III)", "High Risk", "Color(0.9, 0.1, 0.1)", "High")

tumor_types_high ==
    << Info("Atypical Meningioma (WHO Grade II)", "Moderate-High Risk", "orange", "Moderate-High"),
       Info("Oligodendroglioma (Grade II-III)", "Moderate Risk", "Color(1, 0.6, 0)", "Moderate"),
       Info("Ependymoma (Grade II)", "Moderate Risk", "orange", "Moderate"),
       Info("Low-Grade Astrocytoma (Grade II)", "Moderate Risk", "Color(1, 0.65, 0)", "Moderate") >>

tumor_types_moderate ==
    << Info("Pituitary Adenoma", "Low-Moderate Risk", "Color(1, 0.76, 0.03)", "Low-Moderate"),
       Info("Acoustic Neuroma (Vestibular Schwannoma)", "Low-Moderate Risk", "Color(1, 0.7, 0)", "Low"),
       Info("Craniopharyngioma", "Low-Moderate Risk", "Color(1, 0.76, 0.03)", "Low-Moderate"),
       Info("Pineal Region Tumor", "Low-Moderate Risk", "Color(1, 0.76, 0.03)", "Low-Moderate"),
       Info("Meningioma (WHO Grade I)", "Low Risk", "Color(1, 0.85, 0)", "Low") >>

indeterminate ==
    Info("Abnormal Growth - Indeterminate Type", "Uncertain - Requires Further Evaluation",
         "yellow", "Uncertain")

\* what a call yields when it raises instead of returning
IndexError == [raised |-> "IndexError"]

\* list[i] of Python for i >= 0: element number i counted from 0, or IndexError
PyIndex(list, i) == IF i < Len(list) THEN list[i + 1] ELSE IndexError

\* prob = probability * 100
Percent(p) == FloatTimesInt(p, 100)

\* the numbers 50, 55, 70, 85 the percentage is compared with
Fifty == FloatOfInt(50)
FiftyFive == FloatOfInt(55)
Seventy == FloatOfInt(70)
EightyFive == FloatOfInt(85)

\* (faulty variant: prob < 50)
IsNoTumorStrict(prob) == FloatLT(prob, Fifty)
\* if prob <= 50
IsNoTumor(prob) == FloatLE(prob, Fifty)

\* (faulty variant: the selector also depends on how many calls have returned)
tumor_type_selector_drifting(image_hash) ==
    (U32Mod(image_hash, 5) + Cardinality({tumor_info, other_info} \ {[raised |-> "not called"]})) % 5
\* tumor_type_selector = image_hash % 5
tumor_type_selector(image_hash) == U32Mod(image_hash, 5)

\* if prob > 85
AboveCritical(prob) == FloatGT(prob, EightyFive)

\* (faulty variant: an even/odd split)
IsMostAggressiveMod2(selector) == selector % 2 = 0
\* if tumor_type_selector in [0, 1]
IsMostAggressive(selector) == selector \in {0, 1}

\* (faulty variant: prob >= 70)
AboveHighInclusive(prob) == FloatLE(Seventy, prob)
\* if prob > 70
AboveHigh(prob) == FloatGT(prob, Seventy)

\* (faulty variant: the selector indexes the list unreduced)
HighCandidateUnreduced(selector) == PyIndex(tumor_types_high, selector)
\* tumor_types_high[tumor_type_selector % len(tumor_types_high)]
HighCandidate(selector) ==
    PyIndex(tumor_types_high, selector % Len(tumor_types_high))

\* if prob > 55
AboveModerate(prob) == FloatGT(prob, FiftyFive)

\* (faulty variant: reduced by the length of the other list)
ModerateCandidateMod4(selector) ==
    PyIndex(tumor_types_moderate, selector % Len(tumor_types_high))
\* tumor_types_moderate[tumor_type_selector % len(tumor_types_moderate)]
ModerateCandidate(selector) ==
    PyIndex(tumor_types_moderate, selector % Len(tumor_types_moderate))

classify_tumor_type(p, id) ==
    LET prob == Percent(p)
    IN  IF IsNoTumor(prob) THEN no_tumor
        ELSE
        LET image_hash == get_image_hash(id)
            selector   == tumor_type_selector(image_hash)
        IN  IF AboveCritical(prob)
            THEN IF IsMostAggressive(selector) THEN glioblastoma
                 ELSE high_grade_astrocytoma
            ELSE IF AboveHigh(prob) THEN HighCandidate(selector)
            ELSE IF AboveModerate(prob) THEN ModerateCandidate(selector)
            ELSE indeterminate

----------------------------------------------------------------------------
(* The inputs that are tried *)

\* character codes of 'A' and 'x'
Alphabet == {65, 120}

RECURSIVE Rep(_, _)
Rep(c, n) == IF n = 0 THEN <<>> ELSE <<c>> \o Rep(c, n - 1)

RECURSIVE SeqsUpTo(_)
SeqsUpTo(n) ==
    IF n = 0 THEN {<<>>}
    ELSE LET shorter == SeqsUpTo(n - 1)
         IN  shorter \cup {<<c>> \o t : c \in Alphabet, t \in {u \in shorter : Len(u) = n - 1}}

\* lengths of the generated identifier bodies: empty, a few characters, and
\* one less than the 100 characters that enter the hash (so that the tails
\* straddle the place where the identifier is cut)
BodyLen == 7
BodyLens == {0, BodyLen, HashPrefixLen - 1}

\* identifiers: a run of one character followed by a short tail
Identifiers ==
    {Rep(c, n) \o t : c \in Alphabet, n \in BodyLens, t \in SeqsUpTo(MaxTail)}

\* the doubles 0.5, 0.55, 0.7, 0.85 (as Python reads these literals), i.e.
\* the probabilities whose percentage is meant to sit on a bucket boundary
P050 == Dbl(16, 0, 0, -53)
P055 == Dbl(17, 10066329, 10066330, -53)
P070 == Dbl(22, 6710886, 6710886, -53)
P085 == Dbl(27, 3355443, 3355443, -53)
BoundaryProbabilities == {P050, P055, P070, P085}

\* the doubles 0.3, 0.6, 0.78, 0.92, 1.0
P030 == Dbl(19, 3355443, 3355443, -54)
P060 == Dbl(19, 3355443, 3355443, -53)
P078 == Dbl(24, 16106127, 6039798, -53)
P092 == Dbl(29, 7381975, 671089, -53)
P100 == Dbl(16, 0, 0, -52)
InteriorProbabilities == {FloatZero, P030, P060, P078, P092, P100}

Probabilities ==
    {Nudge(b, k) : b \in BoundaryProbabilities, k \in (0 - ProbSpread)..ProbSpread}
        \cup InteriorProbabilities

\* arguments of the calls made between two calls with the same arguments
OtherProbabilities == InteriorProbabilities
OtherIdentifiers == SeqsUpTo(1)

NoResult == [raised |-> "not called"]

\* no request has been received, no response has been returned
NoRequest == [received |-> FALSE]
NoResponse == [returned |-> FALSE]

\* the handlers at rest
ReportIdle ==
    /\ request = NoRequest
    /\ rpc = "idle"
    /\ idx = 0
    /\ positive_count = 0
    /\ negative_count = 0
    /\ high_risk_count = 0
    /\ critical_risk_count = 0
    /\ tumor_types_found = <<>>
    /\ elements = <<>>
    /\ response = NoResponse
    /\ parked = NoRequest

PredictIdle ==
    /\ predict_request = NoRequest
    /\ predict_response = NoResponse

\* the clients whose signup, login and test_db requests are served
Clients == {"c1", "c2"}

AuthIdle ==
    /\ apc = [c \in Clients |-> "idle"]
    /\ areq = [c \in Clients |-> NoRequest]
    /\ aresp = [c \in Clients |-> NoResponse]
    /\ registered = <<>>

----------------------------------------------------------------------------
(* The calls *)

Init ==
    /\ pc = "start"
    /\ probability = NoResult
    /\ image_base64 \in Identifiers
    /\ hash_value = NoResult
    /\ tumor_info = NoResult
    /\ other_info = NoResult
    /\ again_info = NoResult
    /\ ReportIdle
    /\ PredictIdle
    /\ users = <<>>
    /\ AuthIdle

\* get_image_hash(image_base64)
GetImageHash ==
    /\ pc = "start"
    /\ hash_value' = get_image_hash(image_base64)
    /\ pc' = "hashed"
    /\ UNCHANGED <<probability, image_base64, tumor_info, other_info, again_info>>
    /\ UNCHANGED <<reportVars, predictVars, users, authVars, parked>>

\* classify_tumor_type(probability, image_base64)
Classify ==
    /\ pc = "hashed"
    /\ \E prob \in Probabilities :
          /\ probability' = prob
          /\ tumor_info' = classify_tumor_type(prob, image_base64)
    /\ pc' = "classified"
    /\ UNCHANGED <<image_base64, hash_value, other_info, again_info>>
    /\ UNCHANGED <<reportVars, predictVars, users, authVars, parked>>

\* a call of classify_tumor_type with other arguments
ClassifyOther ==
    /\ pc \in {"classified", "interleaved"}
    /\ \E prob \in OtherProbabilities, id \in OtherIdentifiers :
          other_info' = classify_tumor_type(prob, id)
    /\ pc' = "interleaved"
    /\ UNCHANGED <<probability, image_base64, hash_value, tumor_info, again_info>>
    /\ UNCHANGED <<reportVars, predictVars, users, authVars, parked>>

\* classify_tumor_type(probability, image_base64), called once more
ClassifyAgain ==
    /\ pc \in {"classified", "interleaved"}
    /\ again_info' = classify_tumor_type(probability, image_base64)
    /\ pc' = "done"
    /\ UNCHANGED <<probability, image_base64, hash_value, tumor_info, other_info>>
    /\ UNCHANGED <<reportVars, predictVars, users, authVars, parked>>

Next == GetImageHash \/ Classify \/ ClassifyOther \/ ClassifyAgain

Spec == Init /\ [][Next]_vars

----------------------------------------------------------------------------
(* Vocabulary of the properties *)

\* the call classify_tumor_type(probability, image_base64) has returned
Classified == pc \in {"classified", "interleaved", "done"}

\* the call get_image_hash(image_base64) has returned
Hashed == pc # "start"

\* p = probability * 100 of the call under observation
p == Percent(probability)

InModerateBucket == FloatLT(FiftyFive, p) /\ FloatLE(p, Seventy)
InHighBucket     == FloatLT(Seventy, p) /\ FloatLE(p, EightyFive)
InCriticalBucket == FloatLT(EightyFive, p)

SeqRange(s) == {s[i] : i \in 1..Len(s)}

AllRecords ==
    {no_tumor, indeterminate, glioblastoma, high_grade_astrocytoma}
        \cup SeqRange(tumor_types_high) \cup SeqRange(tumor_types_moderate)

\* the five buckets of the table, by percentage and by returned record
BucketOfPercent(x) ==
    IF FloatLE(x, Fifty) THEN 1
    ELSE IF FloatLE(x, FiftyFive) THEN 2
    ELSE IF FloatLE(x, Seventy) THEN 3
    ELSE IF FloatLE(x, EightyFive) THEN 4
    ELSE 5

BucketsOfInfo(r) ==
    {b \in 1..5 : \/ b = 1 /\ r = no_tumor
                  \/ b = 2 /\ r = indeterminate
                  \/ b = 3 /\ r \in SeqRange(tumor_types_moderate)
                  \/ b = 4 /\ r \in SeqRange(tumor_types_high)
                  \/ b = 5 /\ r \in {glioblastoma, high_grade_astrocytoma}}

\* h * 31 + c modulo 2^32
MulStep(h, c) ==
    LET lo == (h.lo * 31) + c
        hi == (h.hi * 31) + (lo \div LimbBase)
    IN  U32(hi % LimbBase, lo % LimbBase)

\* the value after the first k characters of s, starting from 0, by MulStep
RECURSIVE MulRounds(_, _, _, _)
MulRounds(h, s, i, j) ==
    IF i > j THEN h
    ELSE IF i = j THEN MulStep(h, s[i])
    ELSE LET mid  == (i + j) \div 2
             left == MulRounds(h, s, i, mid)
         IN  IF IsU32(left) THEN MulRounds(left, s, mid + 1, j) ELSE left

\* the absolute value of the signed 32-bit reading of h: h itself below 2^31,
\* 2^32 - h from 2^31 on
SignedAbs(h) ==
    IF h.hi < LimbBase \div 2 THEN h
    ELSE IF h.lo = 0 THEN U32(LimbBase - h.hi, 0)
    ELSE U32((LimbBase - 1) - h.hi, LimbBase - h.lo)

SamePrefix(a, b) == Take(a, HashPrefixLen) = Take(b, HashPrefixLen)

----------------------------------------------------------------------------
(* Properties *)

\* C1 (as stated): for 70 < p <= 85 the record returned is candidate number
\* hash(identifier) mod 4 of tumor_types_high, and every identifier whose
\* hash is equal modulo 4 receives the same record.
C1_AsStated ==
    (Classified /\ InHighBucket) =>
        /\ tumor_info = tumor_types_high[U32Mod(hash_value, 4) + 1]
        /\ pc = "classified" =>
              \A id \in Identifiers :
                  U32Mod(get_image_hash(id), 4) = U32Mod(hash_value, 4)
                      => classify_tumor_type(probability, id) = tumor_info

\* C1 (amended): for 70 < p <= 85 the record returned is candidate number
\* (hash(identifier) mod 5) mod 4 of tumor_types_high, and every identifier
\* whose hash is equal modulo 5 receives the same record.
C1_HighBucketSelection ==
    (Classified /\ InHighBucket) =>
        /\ tumor_info = tumor_types_high[(U32Mod(hash_value, 5) % 4) + 1]
        /\ pc = "classified" =>
              \A id \in Identifiers :
                  U32Mod(get_image_hash(id), 5) = U32Mod(hash_value, 5)
                      => classify_tumor_type(probability, id) = tumor_info

\* a 70-85 call whose hash mod 4 differs from (hash mod 5) mod 4
C1_Witness ==
    /\ pc = "classified"
    /\ InHighBucket
    /\ U32Mod(hash_value, 4) # U32Mod(hash_value, 5) % 4
    /\ tumor_info \in SeqRange(tumor_types_high)

\* C2: the record returned belongs to the bucket of p, where a percentage of
\* exactly 50, 55, 70 or 85 belongs to the bucket below and anything above to
\* the bucket above; the record belongs to exactly one bucket.
C2_BoundariesBelongBelow ==
    Classified => BucketsOfInfo(tumor_info) = {BucketOfPercent(p)}

\* a call with p exactly 70, answered from the 55-70 candidates
C2_Witness ==
    /\ Classified
    /\ p = Seventy
    /\ tumor_info \in SeqRange(tumor_types_moderate)

\* C3: for probability <= 0.50 the record is the fixed 'No Tumor' record with
\* severity Normal and risk level No Risk, whatever the identifier.
C3_NoTumorAtOrBelowHalf ==
    (Classified /\ FloatLE(probability, P050)) =>
        /\ tumor_info = no_tumor
        /\ tumor_info.type = "No Tumor Detected"
        /\ tumor_info.severity = "Normal"
        /\ tumor_info.risk_level = "No Risk"
        /\ pc = "classified" =>
              \A id \in Identifiers : classify_tumor_type(probability, id) = tumor_info

\* probability exactly 0.50 with the empty identifier
C3_Witness ==
    /\ pc = "classified"
    /\ probability = P050
    /\ image_base64 = <<>>
    /\ tumor_info = no_tumor

\* C4 (as stated): for 0.50 < probability <= 0.55 the record is the fixed
\* 'Indeterminate' record, severity tier Uncertain, whatever the hash.
C4_AsStated ==
    (Classified /\ FloatLT(P050, probability) /\ FloatLE(probability, P055)) =>
        /\ tumor_info = indeterminate
        /\ tumor_info.risk_level = "Uncertain"

\* C5: for 55 < p <= 70 the record returned is candidate number
\* hash(identifier) mod 5 of tumor_types_moderate, and each of the five
\* candidates is returned for some identifier.
C5_ModerateBucketSelection ==
    (Classified /\ InModerateBucket) =>
        /\ tumor_info = tumor_types_moderate[U32Mod(hash_value, 5) + 1]
        /\ pc = "classified" =>
              \A k \in 1..5 : \E id \in Identifiers :
                  classify_tumor_type(probability, id) = tumor_types_moderate[k]

\* a 55-70 call answered with the last of the five candidates
C5_Witness ==
    /\ pc = "classified"
    /\ InModerateBucket
    /\ U32Mod(hash_value, 5) = 4
    /\ tumor_info = tumor_types_moderate[5]

\* C6: for p > 85 the record is Glioblastoma (risk Critical) exactly when
\* hash(identifier) mod 5 is 0 or 1, and High-Grade Astrocytoma (risk High)
\* when it is 2, 3 or 4.
C6_CriticalBucketSplit ==
    (Classified /\ InCriticalBucket) =>
        /\ (tumor_info = glioblastoma) <=> (U32Mod(hash_value, 5) \in {0, 1})
        /\ (tumor_info = high_grade_astrocytoma) <=> (U32Mod(hash_value, 5) \in {2, 3, 4})
        /\ tumor_info = glioblastoma => tumor_info.risk_level = "Critical"
        /\ tumor_info = high_grade_astrocytoma => tumor_info.risk_level = "High"

\* a p > 85 call with hash mod 5 = 2 (even, yet second-tier)
C6_Witness ==
    /\ Classified
    /\ InCriticalBucket
    /\ U32Mod(hash_value, 5) = 2
    /\ tumor_info = high_grade_astrocytoma

\* C7 (as stated): get_image_hash returns the absolute value of the signed
\* 32-bit reading of the accumulated value, so the result lies in 0..2^31.
C7_AsStated ==
    Hashed =>
        LET str == hash_str(image_base64)
            h   == HashLoop(U32(0, 0), str, 1, Len(str))
        IN  /\ hash_value = SignedAbs(h)
            /\ \/ hash_value.hi < LimbBase \div 2
               \/ hash_value.hi = LimbBase \div 2 /\ hash_value.lo = 0

\* C8: the value returned is the one obtained from 0 by h := (h*31 + c) mod 2^32
\* over the characters of the truncated identifier in order; after every
\* round the accumulator of the loop equals that value and lies in
\* 0..2^32-1; the empty identifier hashes to 0.
C8_RollingHash ==
    Hashed =>
        LET str == hash_str(image_base64)
        IN  /\ hash_value = MulRounds(U32(0, 0), str, 1, Len(str))
            /\ IsU32(hash_value)
            /\ image_base64 = <<>> => hash_value = U32(0, 0)
            /\ pc = "hashed" =>
                  \A k \in 0..Len(str) :
                      LET h == HashLoop(U32(0, 0), str, 1, k)
                      IN  /\ IsU32(h)
                          /\ h = MulRounds(U32(0, 0), str, 1, k)

\* a hash of a 100-character prefix whose accumulator has wrapped around and
\* ends with the top bit set
C8_Witness ==
    /\ pc = "hashed"
    /\ Len(image_base64) > HashPrefixLen
    /\ hash_value.hi >= LimbBase \div 2

\* C9: identifiers that share their first 100 characters receive the same
\* hash and, for the probability of the call, the same record.
C9_PrefixDecides ==
    /\ pc = "hashed" =>
          \A id \in Identifiers :
              SamePrefix(id, image_base64) => get_image_hash(id) = hash_value
    /\ pc = "classified" =>
          \A id \in Identifiers :
              SamePrefix(id, image_base64)
                  => classify_tumor_type(probability, id) = tumor_info

\* a 55-70 call with an identifier longer than 100 characters, for which a
\* different identifier with the same first 100 characters exists
C9_Witness ==
    /\ pc = "classified"
    /\ probability = P060
    /\ Len(image_base64) > HashPrefixLen
    /\ \E id \in Identifiers : id # image_base64 /\ SamePrefix(id, image_base64)
    /\ tumor_info \in SeqRange(tumor_types_moderate)

----------------------------------------------------------------------------
(* The request handlers.  POST requests are modelled; the OPTIONS branch    *)
(* of each handler returns {'status': 'ok'} and touches nothing.            *)

\* largest number of entries of predictions['result'] and predictions['image']
MaxItems == 2

\* Images are strings: a bare base64 payload ("A"), a data URL whose payload
\* follows the comma (",C"), and a payload that does not decode to an image.
Comma == 44
ImgA == <<65>>
ImgUrl == <<Comma, 67>>
ImgBad == <<33>>
ImgUrlBad == <<Comma, 33>>

CommaAt(str) == {i \in 1..Len(str) : str[i] = Comma}
Least(S) == CHOOSE i \in S : \A j \in S : i <= j

\* str.split(',')[1], which raises IndexError when str holds no comma
SplitSecond(str) ==
    IF CommaAt(str) = {} THEN IndexError
    ELSE LET first == Least(CommaAt(str))
             later == {i \in CommaAt(str) : i > first} \cup {Len(str) + 1}
         IN  SubSeq(str, first + 1, Least(later) - 1)

\* base64.b64decode and the image decoder accept the payload
DecodablePayloads == {<<65>>, <<67>>}

ListsUpTo(S, n) == UNION {[1..k -> S] : k \in 0..n}

\* the double 0.00025
P00025 == Dbl(16, 6442450, 15837692, -64)

Hundred == FloatOfInt(100)

\* the least double above 0.5
P050Up == NextUp(P050)

ReportProbabilities == {P00025, P030, P050, P050Up, P060, P078, P092}
ReportImages == {ImgA, ImgUrl, ImgBad}

\* request.get_json() of a body that is the JSON text null
NullBody == [received |-> TRUE, json |-> "null"]

Body(result, image) ==
    [received |-> TRUE, json |-> "object", result |-> result, image |-> image]

ReportBodies ==
    {Body(r, i) : r \in ListsUpTo(ReportProbabilities, MaxItems),
                  i \in ListsUpTo(ReportImages, MaxItems)}
        \cup {NullBody}

\* jsonify({'success': False, 'message': str(e)}), 500
ServerError(message) ==
    [returned |-> TRUE, status |-> 500, mimetype |-> "application/json",
     success |-> FALSE, message |-> message]

\* send_file(buffer, mimetype='application/pdf', ...): the built document
PdfFile(flowables) ==
    [returned |-> TRUE, status |-> 200, mimetype |-> "application/pdf",
     pdf |-> flowables]

\* (faulty variant: 0.5 itself counts as positive)
is_positive_from_half(prob) == ~FloatLT(prob, P050)

\* is_positive = prob > 0.5
is_positive(prob) == FloatGT(prob, P050)

\* (faulty variant: the critical counter starts at 70)
CountsAsCriticalFromSeventy(percent) == FloatGT(percent, Seventy)

\* if probability > 85: critical_risk_count += 1
\* elif probability > 70: high_risk_count += 1
CountsAsCritical(percent) == FloatGT(percent, EightyFive)

\* (faulty variant: the high counter is not an elif of the critical one)
CountsAsHighAlso(percent) == FloatGT(percent, Seventy)

CountsAsHigh(percent) == ~FloatGT(percent, EightyFive) /\ FloatGT(percent, Seventy)

\* (faulty variant: the entry is set to 1 instead of being incremented)
TallyOnce(found, tumor_type) ==
    IF tumor_type \in DOMAIN found
    THEN [found EXCEPT ![tumor_type] = 1]
    ELSE found @@ (tumor_type :> 1)

\* tumor_types_found[tumor_type] = tumor_types_found.get(tumor_type, 0) + 1
Tally(found, tumor_type) ==
    IF tumor_type \in DOMAIN found
    THEN [found EXCEPT ![tumor_type] = @ + 1]
    ELSE found @@ (tumor_type :> 1)

\* the status line of a section
status_of(percent) ==
    IF FloatGT(percent, EightyFive) THEN "POSITIVE - CRITICAL/HIGH RISK"
    ELSE IF FloatGT(percent, Seventy) THEN "POSITIVE - MODERATE-HIGH RISK"
    ELSE IF FloatGT(percent, FiftyFive) THEN "POSITIVE - LOW-MODERATE RISK"
    ELSE IF FloatGT(percent, Fifty) THEN "POSITIVE - REQUIRES REVIEW"
    ELSE "NEGATIVE - NO TUMOR"

\* (faulty variant: the complement taken before the multiplication)
confidence_of_complement(prob) ==
    IF is_positive(prob) THEN PyFormat2f(Percent(prob))
    ELSE PyFormat2f(Percent(FloatMinus(FloatOfInt(1), prob)))

\* confidence = f"{probability:.2f}%" if is_positive else f"{100-probability:.2f}%"
\* as the number of hundredths shown
confidence_of(prob) ==
    IF is_positive(prob) THEN PyFormat2f(Percent(prob))
    ELSE PyFormat2f(FloatMinus(Hundred, Percent(prob)))

\* img_data of the inner try: the part after the comma of a data URL, the
\* string itself otherwise
img_data_of(image) ==
    IF CommaAt(image) # {} THEN SplitSecond(image) ELSE image

\* the inner try runs through: the payload decodes and the image is embedded
Embeds(image) == img_data_of(image) \in DecodablePayloads

\* the flowables the model keeps
PatientInfo(images_base64) ==
    [kind |-> "patient_info", images_analyzed |-> Len(images_base64)]

\* (faulty variant: the scans are numbered from 0)
ImageHeaderFromZero(i) == [kind |-> "image_header", scan |-> i]

\* "MRI Scan #{idx + 1} - Detailed Analysis"
ImageHeader(i) == [kind |-> "image_header", scan |-> i + 1]

ResultSection(i, prob, info) ==
    [kind |-> "result", scan |-> i + 1,
     status |-> status_of(Percent(prob)),
     classification |-> info.type,
     confidence |-> confidence_of(prob),
     risk_level |-> info.risk_level,
     severity |-> info.severity]

\* (faulty variant: the placeholder says the classification is unknown)
ErrorTextUnclassified(i, info) ==
    [kind |-> "error_text", scan |-> i + 1, classification |-> "Unknown"]

\* "Image {idx + 1}: Error processing image. Classification: {tumor_info['type']}"
ErrorText(i, info) ==
    [kind |-> "error_text", scan |-> i + 1, classification |-> info.type]

\* f'{(count/total_images*100):.1f}%' as the number of tenths shown; the
\* division raises for total_images = 0.  (No count/total with total < 16
\* lies halfway between two tenths, so rounding to nearest is all there is.)
ZeroDivisionError == [raised |-> "ZeroDivisionError"]

PercentageOf(count, total) ==
    IF total = 0 THEN ZeroDivisionError
    ELSE ((count * 2000) + total) \div (2 * total)

SummaryTable(total, positive, critical, high, negative) ==
    [kind |-> "summary", total |-> total,
     positive |-> positive, positive_pct |-> PercentageOf(positive, total),
     critical |-> critical, critical_pct |-> PercentageOf(critical, total),
     high |-> high, high_pct |-> PercentageOf(high, total),
     negative |-> negative, negative_pct |-> PercentageOf(negative, total)]

\* the characters of a label, for the `in` tests of the priority
Spelling ==
       "Glioblastoma (Grade IV Glioma)" :>
        <<"G", "l", "i", "o", "b", "l", "a", "s", "t", "o", "m", "a", " ",
          "(", "G", "r", "a", "d", "e", " ", "I", "V", " ", "G", "l", "i",
          "o", "m", "a", ")">>
    @@ "High-Grade Astrocytoma (Grade III)" :>
        <<"H", "i", "g", "h", "-", "G", "r", "a", "d", "e", " ", "A", "s",
          "t", "r", "o", "c", "y", "t", "o", "m", "a", " ", "(", "G", "r",
          "a", "d", "e", " ", "I", "I", "I", ")">>
    @@ "Atypical Meningioma (WHO Grade II)" :>
        <<"A", "t", "y", "p", "i", "c", "a", "l", " ", "M", "e", "n", "i",
          "n", "g", "i", "o", "m", "a", " ", "(", "W", "H", "O", " ", "G",
          "r", "a", "d", "e", " ", "I", "I", ")">>
    @@ "Oligodendroglioma (Grade II-III)" :>
        <<"O", "l", "i", "g", "o", "d", "e", "n", "d", "r", "o", "g", "l",
          "i", "o", "m", "a", " ", "(", "G", "r", "a", "d", "e", " ", "I",
          "I", "-", "I", "I", "I", ")">>
    @@ "Ependymoma (Grade II)" :>
        <<"E", "p", "e", "n", "d", "y", "m", "o", "m", "a", " ", "(", "G",
          "r", "a", "d", "e", " ", "I", "I", ")">>
    @@ "Low-Grade Astrocytoma (Grade II)" :>
        <<"L", "o", "w", "-", "G", "r", "a", "d", "e", " ", "A", "s", "t",
          "r", "o", "c", "y", "t", "o", "m", "a", " ", "(", "G", "r", "a",
          "d", "e", " ", "I", "I", ")">>
    @@ "Pituitary Adenoma" :>
        <<"P", "i", "t", "u", "i", "t", "a", "r", "y", " ", "A", "d", "e",
          "n", "o", "m", "a">>
    @@ "Acoustic Neuroma (Vestibular Schwannoma)" :>
        <<"A", "c", "o", "u", "s", "t", "i", "c", " ", "N", "e", "u", "r",
          "o", "m", "a", " ", "(", "V", "e", "s", "t", "i", "b", "u", "l",
          "a", "r", " ", "S", "c", "h", "w", "a", "n", "n", "o", "m", "a",
          ")">>
    @@ "Craniopharyngioma" :>
        <<"C", "r", "a", "n", "i", "o", "p", "h", "a", "r", "y", "n", "g",
          "i", "o", "m", "a">>
    @@ "Pineal Region Tumor" :>
        <<"P", "i", "n", "e", "a", "l", " ", "R", "e", "g", "i", "o", "n",
          " ", "T", "u", "m", "o", "r">>
    @@ "Meningioma (WHO Grade I)" :>
        <<"M", "e", "n", "i", "n", "g", "i", "o", "m", "a", " ", "(", "W",
          "H", "O", " ", "G", "r", "a", "d", "e", " ", "I", ")">>
    @@ "Abnormal Growth - Indeterminate Type" :>
        <<"A", "b", "n", "o", "r", "m", "a", "l", " ", "G", "r", "o", "w",
          "t", "h", " ", "-", " ", "I", "n", "d", "e", "t", "e", "r", "m",
          "i", "n", "a", "t", "e", " ", "T", "y", "p", "e">>

\* needle in text
IsSubstring(needle, text) ==
    \E k \in 0..(Len(text) - Len(needle)) :
        SubSeq(text, k + 1, k + Len(needle)) = needle

\* the priority of a row of the distribution table
priority_of(tumor_type) ==
    LET text == Spelling[tumor_type]
    IN  IF \/ IsSubstring(<<"G", "l", "i", "o", "b", "l", "a", "s", "t", "o", "m", "a">>, text)
           \/ IsSubstring(<<"H", "i", "g", "h", "-", "G", "r", "a", "d", "e">>, text)
        THEN "URGENT"
        ELSE IF \/ IsSubstring(<<"G", "r", "a", "d", "e", " ", "I", "I", "I">>, text)
                \/ IsSubstring(<<"A", "t", "y", "p", "i", "c", "a", "l">>, text)
        THEN "High"
        ELSE IF \/ IsSubstring(<<"A", "d", "e", "n", "o", "m", "a">>, text)
                \/ IsSubstring(<<"G", "r", "a", "d", "e", " ", "I">>, text)
        THEN "Routine"
        ELSE "Moderate"

\* the rows of the distribution table: cases and priority per label (the rows
\* are sorted by cases; their order is left out)
TumorDistribution(found) ==
    [kind |-> "tumor_distribution", cases |-> found,
     priority |-> [tumor_type \in DOMAIN found |-> priority_of(tumor_type)]]

\* (faulty variant: what had been assembled is sent all the same)
ReportExceptPartial(message) ==
    /\ rpc' = "returned"
    /\ response' = PdfFile(elements)

\* the except clause of the handler: nothing but the 500 response leaves it
ReportExcept(message) ==
    /\ rpc' = "returned"
    /\ response' = ServerError(message)

\* data = request.get_json() ... critical_risk_count = 0; tumor_types_found = {}
ReportReceive ==
    /\ rpc = "idle"
    /\ request # NoRequest
    /\ IF request = NullBody
       THEN /\ ReportExcept("'NoneType' object has no attribute 'get'")
            /\ UNCHANGED elements
       ELSE /\ rpc' = "loop"
            /\ elements' = <<PatientInfo(request.image)>>
            /\ UNCHANGED response
    /\ idx' = 0
    /\ positive_count' = 0
    /\ negative_count' = 0
    /\ high_risk_count' = 0
    /\ critical_risk_count' = 0
    /\ tumor_types_found' = <<>>
    /\ UNCHANGED <<request, classifyVars, predictVars, users, authVars, parked>>

\* (faulty variant: the counters are updated inside the try block, after the
\* image has been decoded, so that an item whose image fails is not counted)
ReportItemCountingInsideTry ==
    /\ rpc = "loop"
    /\ idx < Len(request.result)
    /\ LET prob    == request.result[idx + 1]
           percent == Percent(prob)
           image   == PyIndex(request.image, idx)
       IN  IF idx >= Len(request.image)
           THEN /\ ReportExcept("list index out of range")
                /\ UNCHANGED <<idx, positive_count, negative_count, high_risk_count,
                               critical_risk_count, tumor_types_found, elements>>
           ELSE
           LET info == classify_tumor_type(prob, image)
           IN  /\ IF ~Embeds(image)
                  THEN UNCHANGED <<positive_count, negative_count, critical_risk_count,
                                   high_risk_count, tumor_types_found>>
                  ELSE IF is_positive(prob)
                  THEN /\ positive_count' = positive_count + 1
                       /\ critical_risk_count' =
                              IF CountsAsCritical(percent)
                              THEN critical_risk_count + 1 ELSE critical_risk_count
                       /\ high_risk_count' =
                              IF CountsAsHigh(percent)
                              THEN high_risk_count + 1 ELSE high_risk_count
                       /\ tumor_types_found' = Tally(tumor_types_found, info.type)
                       /\ UNCHANGED negative_count
                  ELSE /\ negative_count' = negative_count + 1
                       /\ UNCHANGED <<positive_count, critical_risk_count,
                                      high_risk_count, tumor_types_found>>
               /\ elements' =
                      elements \o
                      << ImageHeader(idx),
                         IF Embeds(image) THEN ResultSection(idx, prob, info)
                         ELSE ErrorText(idx, info) >>
               /\ idx' = idx + 1
               /\ UNCHANGED <<rpc, response>>
    /\ UNCHANGED <<request, classifyVars, predictVars, users, authVars, parked>>

\* one iteration of `for idx, prob in enumerate(predictions.get('result', []))`
ReportItem ==
    /\ rpc = "loop"
    /\ idx < Len(request.result)
    /\ LET prob    == request.result[idx + 1]
           percent == Percent(prob)
           image   == PyIndex(request.image, idx)
       IN  IF idx >= Len(request.image)
           THEN /\ ReportExcept("list index out of range")
                /\ UNCHANGED <<idx, positive_count, negative_count, high_risk_count,
                               critical_risk_count, tumor_types_found, elements>>
           ELSE
           LET info == classify_tumor_type(prob, image)
           IN  /\ IF is_positive(prob)
                  THEN /\ positive_count' = positive_count + 1
                       /\ critical_risk_count' =
                              IF CountsAsCritical(percent)
                              THEN critical_risk_count + 1 ELSE critical_risk_count
                       /\ high_risk_count' =
                              IF CountsAsHigh(percent)
                              THEN high_risk_count + 1 ELSE high_risk_count
                       /\ tumor_types_found' = Tally(tumor_types_found, info.type)
                       /\ UNCHANGED negative_count
                  ELSE /\ negative_count' = negative_count + 1
                       /\ UNCHANGED <<positive_count, critical_risk_count,
                                      high_risk_count, tumor_types_found>>
               /\ elements' =
                      elements \o
                      << ImageHeader(idx),
                         IF Embeds(image) THEN ResultSection(idx, prob, info)
                         ELSE ErrorText(idx, info) >>
               /\ idx' = idx + 1
               /\ UNCHANGED <<rpc, response>>
    /\ UNCHANGED <<request, classifyVars, predictVars, users, authVars, parked>>

\* after the loop: total_images, the summary table, the distribution table
ReportSummary ==
    /\ rpc = "loop"
    /\ idx = Len(request.result)
    /\ LET total_images == Len(request.result)
       IN  IF total_images = 0
           THEN /\ ReportExcept("division by zero")
                /\ UNCHANGED elements
           ELSE /\ rpc' = "build"
                /\ elements' =
                       elements \o
                       <<SummaryTable(total_images, positive_count, critical_risk_count,
                                      high_risk_count, negative_count)>> \o
                       (IF DOMAIN tumor_types_found # {}
                        THEN <<TumorDistribution(tumor_types_found)>> ELSE <<>>)
                /\ UNCHANGED response
    /\ UNCHANGED <<request, idx, positive_count, negative_count, high_risk_count,
                   critical_risk_count, tumor_types_found>>
    /\ UNCHANGED <<classifyVars, predictVars, users, authVars, parked>>

\* doc.build(elements), which may raise, and send_file
ReportBuild ==
    /\ rpc = "build"
    /\ \/ /\ rpc' = "returned"
          /\ response' = PdfFile(elements)
       \/ ReportExcept("build failed")
    /\ UNCHANGED <<request, idx, positive_count, negative_count, high_risk_count,
                   critical_risk_count, tumor_types_found, elements>>
    /\ UNCHANGED <<classifyVars, predictVars, users, authVars, parked>>

\* predict: the bodies sent, the probabilities the network may answer
PredictBatches ==
    {<<>>, <<ImgUrl>>, <<ImgA>>, <<ImgUrl, ImgUrlBad>>}

NoImageKey == [received |-> TRUE, json |-> "object"]

PredictBodies ==
    {[received |-> TRUE, json |-> "object", image |-> b] : b \in PredictBatches}
        \cup {NoImageKey}

PredictProbabilities == {P092}

\* jsonify({"result": prediction[:, 1].tolist()}), 200
PredictResult(result) ==
    [returned |-> TRUE, status |-> 200, mimetype |-> "application/json",
     result |-> result]

\* jsonify({'error': str(e)}), 500
PredictError(message) ==
    [returned |-> TRUE, status |-> 500, mimetype |-> "application/json",
     error |-> message]

\* get_cv2_image_from_base64_string(item) followed by cv2.resize: the payload
\* after the comma must exist and decode
Readable(item) ==
    /\ CommaAt(item) # {}
    /\ SplitSecond(item) \in DecodablePayloads

\* what the handler may return for a body: the network is an outside
\* component that answers one probability per image or fails (it may not be
\* loaded at all, and what it does with an empty batch is its own affair)
PredictOutcomes(body) ==
    IF "image" \notin DOMAIN body THEN {PredictError("'image'")}
    ELSE IF \E i \in 1..Len(body.image) : ~Readable(body.image[i])
    THEN {PredictError("unreadable image")}
    ELSE {PredictError("model failure")}
         \cup {PredictResult(r) : r \in [1..Len(body.image) -> PredictProbabilities]}

\* the whole handler
Predict ==
    /\ predict_response = NoResponse
    /\ \E body \in PredictBodies :
          /\ predict_request' = body
          /\ \E outcome \in PredictOutcomes(body) : predict_response' = outcome
    /\ UNCHANGED <<classifyVars, reportVars, users, authVars, parked>>

----------------------------------------------------------------------------
(* The users table *)

\* hashlib.sha256(password.encode()).hexdigest(): one digest per password,
\* nothing but the password enters it
hash_password(password) == [sha256 |-> password]

\* a row of users (created_at, which nothing reads back, is left out)
UserRow(id, name, email, password) ==
    [id |-> id, name |-> name, email |-> email, password |-> password]

\* strings of the auth requests are sequences of characters
NameAnn == <<"A", "n", "n">>
EmailAnn == <<"a", "@", "b", ".", "c">>
PasswordAnn == <<"s", "e", "c", "r", "e", "t">>

RowAnn == UserRow(1, NameAnn, EmailAnn, hash_password(PasswordAnn))

----------------------------------------------------------------------------
(* SpecReport: one generate_report request *)

InitReport ==
    /\ pc = "start"
    /\ probability = NoResult
    /\ image_base64 = <<>>
    /\ hash_value = NoResult
    /\ tumor_info = NoResult
    /\ other_info = NoResult
    /\ again_info = NoResult
    /\ request \in ReportBodies
    /\ rpc = "idle"
    /\ idx = 0
    /\ positive_count = 0
    /\ negative_count = 0
    /\ high_risk_count = 0
    /\ critical_risk_count = 0
    /\ tumor_types_found = <<>>
    /\ elements = <<>>
    /\ response = NoResponse
    /\ parked = NoRequest
    /\ PredictIdle
    /\ users = <<RowAnn>>
    /\ AuthIdle

NextReport ==
    ReportReceive \/ ReportItem \/ ReportSummary \/ ReportBuild

SpecReport == InitReport /\ [][NextReport]_vars

----------------------------------------------------------------------------
(* Properties of the handlers *)

\* the summary table of the document, once it has been appended
HasSummary == \E k \in 1..Len(elements) : elements[k].kind = "summary"
Summary == elements[CHOOSE k \in 1..Len(elements) : elements[k].kind = "summary"]

\* the items of the batch: the entries of predictions['result']
Items == 1..Len(request.result)
Prob(i) == request.result[i]
PositiveItems == {i \in Items : FloatGT(Prob(i), P050)}

\* the label classify_tumor_type gives item i
LabelOf(i) == classify_tumor_type(Prob(i), request.image[i]).type

\* C11: once the batch has been processed, the summary has total = number of
\* items, positive = items with probability > 0.5, negative = the others,
\* critical = items with probability*100 > 85, high = items with
\* 70 < probability*100 <= 85, and the label histogram gives each label the
\* number of positive items carrying it (labels of no positive item are absent).
C11_SummaryCounts ==
    HasSummary =>
        /\ Summary.total = Len(request.result)
        /\ Summary.positive = Cardinality(PositiveItems)
        /\ Summary.negative = Cardinality(Items \ PositiveItems)
        /\ Summary.critical =
               Cardinality({i \in Items : FloatLT(EightyFive, Percent(Prob(i)))})
        /\ Summary.high =
               Cardinality({i \in Items : /\ FloatLT(Seventy, Percent(Prob(i)))
                                          /\ FloatLE(Percent(Prob(i)), EightyFive)})
        /\ DOMAIN tumor_types_found = {LabelOf(i) : i \in PositiveItems}
        /\ \A label \in DOMAIN tumor_types_found :
               tumor_types_found[label] =
                   Cardinality({i \in PositiveItems : LabelOf(i) = label})

\* the batch [(0.92, imgA), (0.30, imgB)] answered with a document whose
\* summary reads total 2, positive 1, negative 1, critical 1
C11_Witness ==
    /\ request = Body(<<P092, P030>>, <<ImgA, ImgUrl>>)
    /\ response = PdfFile(elements)
    /\ HasSummary
    /\ Summary.total = 2
    /\ Summary.positive = 1
    /\ Summary.negative = 1
    /\ Summary.critical = 1
    /\ Summary.high = 0
    /\ tumor_types_found = ("Glioblastoma (Grade IV Glioma)" :> 1)

\* the full sections of the document, and whether one reads positive
ResultSections == {k \in 1..Len(elements) : elements[k].kind = "result"}
ReadsPositive(section) == section.status # "NEGATIVE - NO TUMOR"

\* C12 (as stated): every section is positive exactly when probability > 0.5,
\* and its confidence is probability*100 when positive and
\* (1 - probability)*100 when negative, as shown with two decimals.
C12_AsStated ==
    \A k \in ResultSections :
        LET section == elements[k]
            prob    == Prob(section.scan)
        IN  /\ ReadsPositive(section) <=> FloatGT(prob, P050)
            /\ section.confidence =
                   IF FloatGT(prob, P050) THEN PyFormat2f(Percent(prob))
                   ELSE PyFormat2f(Percent(FloatMinus(FloatOfInt(1), prob)))

\* C12 (amended): every section is positive exactly when probability > 0.5,
\* and its confidence is probability*100 when positive and
\* 100 - probability*100 when negative, as shown with two decimals.
C12_Confidence ==
    \A k \in ResultSections :
        LET section == elements[k]
            prob    == Prob(section.scan)
        IN  /\ ReadsPositive(section) <=> FloatGT(prob, P050)
            /\ section.confidence =
                   IF FloatGT(prob, P050) THEN PyFormat2f(Percent(prob))
                   ELSE PyFormat2f(FloatMinus(Hundred, Percent(prob)))

\* a document with a positive section of confidence 92.00 (probability 0.92)
\* and a negative section of confidence 70.00 (probability 0.30)
C12_Witness ==
    /\ response = PdfFile(elements)
    /\ \E k \in ResultSections :
          /\ Prob(elements[k].scan) = P092
          /\ ReadsPositive(elements[k])
          /\ elements[k].confidence = 9200
    /\ \E k \in ResultSections :
          /\ Prob(elements[k].scan) = P030
          /\ ~ReadsPositive(elements[k])
          /\ elements[k].confidence = 7000

\* the request carries an empty batch
EmptyBatch == "result" \in DOMAIN request /\ request.result = <<>>

\* the handler answered with the message of Python's ZeroDivisionError
DivisionFault ==
    /\ response # NoResponse
    /\ response.status = 500
    /\ response.message = "division by zero"

\* C13 (as stated): a request with an empty batch is answered either by a
\* documented empty-input error or by a document whose summary percentages
\* are all 0; it is never answered by a division-by-zero fault.
C13_AsStated ==
    (EmptyBatch /\ rpc = "returned") =>
        /\ ~DivisionFault
        /\ response.status = 200 =>
               /\ HasSummary
               /\ Summary.positive_pct = 0
               /\ Summary.critical_pct = 0
               /\ Summary.high_pct = 0
               /\ Summary.negative_pct = 0

\* the loop is running or has run through (no exception left it)
LoopAlive == rpc \in {"loop", "build"} \/ (rpc = "returned" /\ HasSummary)

\* the batch is one the handler can finish: an image for every probability,
\* and at least one probability
WellFormedBatch ==
    /\ "result" \in DOMAIN request
    /\ 0 < Len(request.result)
    /\ Len(request.result) <= Len(request.image)

\* what item i contributes when its image is sound: depends on item i alone
FullSection(i) ==
    LET info == classify_tumor_type(Prob(i), request.image[i])
    IN  [kind |-> "result", scan |-> i,
         status |-> status_of(Percent(Prob(i))),
         classification |-> info.type,
         confidence |-> confidence_of(Prob(i)),
         risk_level |-> info.risk_level,
         severity |-> info.severity]

\* C14: an image that cannot be decoded or embedded fails its own item only.
\* Every processed item i has its header followed by its full section, or,
\* when its image fails, by an error placeholder that names the
\* classification resolved for item i; the sections of the other items are
\* what they are without the failure (each depends on its own item alone);
\* and the handler goes on: for a well-formed batch nothing but a failure of
\* the final document build keeps the document from being returned.
C14_FailureConfined ==
    /\ LoopAlive =>
           \A i \in 1..idx :
               /\ elements[2 * i] = [kind |-> "image_header", scan |-> i]
               /\ elements[(2 * i) + 1] =
                      IF Embeds(request.image[i]) THEN FullSection(i)
                      ELSE [kind |-> "error_text", scan |-> i,
                            classification |-> LabelOf(i)]
    /\ (WellFormedBatch /\ rpc = "returned") =>
           \/ response = PdfFile(elements)
           \/ response = ServerError("build failed")

\* a returned document with a placeholder for item 1, whose image failed
\* after its classification (0.92: a critical-risk label) was resolved, and
\* the full section of item 2
C14_Witness ==
    /\ request = Body(<<P092, P030>>, <<ImgBad, ImgA>>)
    /\ response = PdfFile(elements)
    /\ elements[3] = [kind |-> "error_text", scan |-> 1,
                      classification |-> "High-Grade Astrocytoma (Grade III)"]
    /\ elements[5].kind = "result"
    /\ elements[5].confidence = 7000
    /\ HasSummary

\* a 500 answer in JSON that carries a message and no document
IsServerError(r) ==
    /\ r.status = 500
    /\ r.mimetype = "application/json"
    /\ "pdf" \notin DOMAIN r
    /\ "result" \notin DOMAIN r
    /\ \/ "message" \in DOMAIN r /\ r.message # ""
       \/ "error" \in DOMAIN r /\ r.error # ""

\* the ways generate_report fails apart from an image of its own item: a
\* body that is not an object, an empty batch, a probability without image
ReportMustFail ==
    \/ request = NullBody
    \/ EmptyBatch
    \/ "result" \in DOMAIN request /\ Len(request.image) < Len(request.result)

\* the ways predict fails: no 'image' entry, an image that cannot be read
PredictMustFail ==
    \/ "image" \notin DOMAIN predict_request
    \/ \E i \in 1..Len(predict_request.image) : ~Readable(predict_request.image[i])

\* C15: a failure of predict or generate_report (other than the image of one
\* item of a report) is answered with status 500 and an error message; the
\* answer carries no document, complete or partial, and no result, and the
\* users table is what it was.
C15_FailuresAnswered500 ==
    /\ rpc = "returned" =>
           /\ response = PdfFile(elements) \/ IsServerError(response)
           /\ ReportMustFail => IsServerError(response)
           /\ response.status = 200 => HasSummary
    /\ predict_response # NoResponse =>
           /\ \/ IsServerError(predict_response)
              \/ /\ predict_response.status = 200
                 /\ Len(predict_response.result) = Len(predict_request.image)
           /\ PredictMustFail => IsServerError(predict_response)
    /\ users = <<RowAnn>>

\* generate_report failed after two flowables of item 1 had been assembled
\* (the second probability has no image), and predict failed on an image
C15_Witness ==
    /\ rpc = "returned"
    /\ response = ServerError("list index out of range")
    /\ Len(elements) = 3
    /\ predict_response = PredictError("unreadable image")

\* the places of the document that hold a header, a section (full or
\* placeholder), the summary
PlacesOf(kinds) == {k \in 1..Len(elements) : elements[k].kind \in kinds}
SectionKinds == {"result", "error_text"}

\* C16: a returned document holds exactly one section per item, full or
\* placeholder, in the order of the items: item i (counted from 0) comes
\* under the header 'MRI Scan #i+1'; a full section shows label, confidence,
\* risk level and severity; and the summary with total, positive, critical,
\* high and negative comes after every section.
C16_OneSectionPerItem ==
    (rpc = "returned" /\ response.status = 200) =>
        LET n == Len(request.result)
        IN  /\ Cardinality(PlacesOf(SectionKinds)) = n
            /\ Cardinality(PlacesOf({"image_header"})) = n
            /\ \A i \in 0..(n - 1) :
                   LET header  == response.pdf[(2 * i) + 2]
                       section == response.pdf[(2 * i) + 3]
                   IN  /\ header.kind = "image_header"
                       /\ header.scan = i + 1
                       /\ section.kind \in SectionKinds
                       /\ section.classification = LabelOf(i + 1)
                       /\ section.kind = "result" =>
                              /\ section.confidence \in 5000..10000
                              /\ section.risk_level # ""
                              /\ section.severity # ""
            /\ Cardinality(PlacesOf({"summary"})) = 1
            /\ \A k \in PlacesOf(SectionKinds), m \in PlacesOf({"summary"}) : k < m
            /\ {"total", "positive", "critical", "high", "negative"}
                   \subseteq DOMAIN Summary

\* a returned document for two items: header 1, section 1, header 2,
\* section 2, then the summary
C16_Witness ==
    /\ rpc = "returned"
    /\ response = PdfFile(elements)
    /\ Len(request.result) = 2
    /\ PlacesOf({"image_header"}) = {2, 4}
    /\ PlacesOf(SectionKinds) = {3, 5}
    /\ PlacesOf({"summary"}) = {6}

----------------------------------------------------------------------------
(* signup, login, test_db.  A JSON value of a request is a string (its      *)
(* characters), a number, or missing from the body.                         *)

JStr(chars) == [type |-> "string", chars |-> chars]
JNum(n) == [type |-> "number", value |-> n]
Missing == [type |-> "missing"]

\* data.get(key, ''): the value, the empty string when the key is missing
GetOrEmpty(v) == IF v.type = "missing" THEN JStr(<<>>) ELSE v

\* the truth value Python gives a value inside all([...])
Truthy(v) ==
    \/ v.type = "string" /\ v.chars # <<>>
    \/ v.type = "number" /\ v.value # 0

Greatest(S) == CHOOSE i \in S : \A j \in S : j <= i

\* (faulty variant: nothing is trimmed)
strip_nothing(chars) == chars

\* str.strip(): without the blanks at both ends
strip(chars) ==
    LET inked == {i \in 1..Len(chars) : chars[i] # " "}
    IN  IF inked = {} THEN <<>>
        ELSE SubSeq(chars, Least(inked), Greatest(inked))

\* '@' in email, '.' in email
Contains(chars, ch) == \E i \in 1..Len(chars) : chars[i] = ch

\* the strings of the requests
NameBob == <<"B", "o", "b">>
Blank == <<" ">>
EmailAnnPadded == <<" ">> \o EmailAnn \o <<" ">>
EmailBob == <<"b", "@", "b", ".", "c">>
EmailNoAt == <<"a", "b", ".", "c">>
PasswordBob == <<"h", "u", "n", "t", "e", "r", "2">>
PasswordShort == <<"s", "h", "o", "r", "t">>

SignupBody(name, email, password) ==
    [received |-> TRUE, json |-> "object", kind |-> "signup",
     name |-> name, email |-> email, password |-> password]

LoginBody(email, password) ==
    [received |-> TRUE, json |-> "object", kind |-> "login",
     email |-> email, password |-> password]

NullSignup == [received |-> TRUE, json |-> "null", kind |-> "signup"]
NullLogin == [received |-> TRUE, json |-> "null", kind |-> "login"]
TestDbRequest == [received |-> TRUE, kind |-> "test_db"]

SignupBodies ==
    { SignupBody(JStr(NameAnn), JStr(EmailAnn), JStr(PasswordAnn)),
      SignupBody(JStr(NameBob), JStr(EmailAnnPadded), JStr(PasswordBob)),
      SignupBody(JStr(NameBob), JStr(EmailBob), JStr(PasswordAnn)),
      SignupBody(JStr(Blank), JStr(EmailAnn), JStr(PasswordAnn)),
      SignupBody(JStr(NameAnn), JStr(EmailNoAt), JStr(PasswordAnn)),
      SignupBody(JStr(NameBob), JStr(EmailAnn), JStr(PasswordShort)),
      SignupBody(JStr(NameBob), JStr(EmailAnn), JNum(123456)),
      SignupBody(Missing, JStr(EmailAnn), JStr(PasswordAnn)),
      NullSignup }

LoginBodies ==
    { LoginBody(JStr(EmailAnn), JStr(PasswordAnn)),
      LoginBody(JStr(EmailAnnPadded), JStr(PasswordBob)),
      LoginBody(JStr(EmailAnn), JStr(PasswordBob)),
      LoginBody(JStr(EmailBob), JStr(PasswordAnn)),
      LoginBody(JStr(EmailAnn), JStr(<<>>)),
      LoginBody(Missing, JStr(PasswordAnn)),
      LoginBody(JStr(EmailAnn), JNum(123456)),
      NullLogin }

\* jsonify({'success': False, 'message': message}), status
Rejected(status, message) ==
    [returned |-> TRUE, status |-> status, success |-> FALSE, message |-> message]

\* (faulty variant: the id answered is always 1, not lastrowid)
RegisteredAsFirst(user_id, name, email) ==
    [returned |-> TRUE, status |-> 201, success |-> TRUE,
     message |-> "User registered successfully",
     user |-> [id |-> 1, name |-> name, email |-> email]]

\* the 201 answer of signup
Registered(user_id, name, email) ==
    [returned |-> TRUE, status |-> 201, success |-> TRUE,
     message |-> "User registered successfully",
     user |-> [id |-> user_id, name |-> name, email |-> email]]

\* app.config['SECRET_KEY'] and the days a token is valid
SECRET_KEY == "brain-tumor-secret-key-2024"
TokenDays == 7

\* the days at which utcnow() may be read
MaxDay == 1

\* (faulty variant: the token is made out to user id 0)
generate_token_anonymous(user_id, email, today) ==
    [alg |-> "HS256", key |-> SECRET_KEY,
     payload |-> [user_id |-> 0, email |-> email, exp |-> today + TokenDays]]

\* jwt.encode(payload, SECRET_KEY, algorithm='HS256'): the payload under a
\* signature that only the key reproduces
generate_token(user_id, email, today) ==
    [alg |-> "HS256", key |-> SECRET_KEY,
     payload |-> [user_id |-> user_id, email |-> email, exp |-> today + TokenDays]]

\* jwt.decode(token, key, algorithms=['HS256'])
InvalidSignatureError == [raised |-> "InvalidSignatureError"]
jwt_decode(token, key) ==
    IF token.alg = "HS256" /\ token.key = key THEN token.payload
    ELSE InvalidSignatureError

\* the 200 answer of login
LoggedIn(token, row) ==
    [returned |-> TRUE, status |-> 200, success |-> TRUE,
     message |-> "Login successful", token |-> token,
     user |-> [id |-> row.id, name |-> row.name, email |-> row.email]]

\* (faulty variant: the UNIQUE constraint is missing)
EmailTakenNever(email) == FALSE

\* email TEXT UNIQUE NOT NULL: the INSERT raises sqlite3.IntegrityError
EmailTaken(email) == \E i \in 1..Len(users) : users[i].email = email

\* (faulty variant: the password is not part of the query)
CredentialsMatchEmailOnly(row, email, hashed_password) == row.email = email

\* WHERE email = ? AND password = ?
CredentialsMatch(row, email, hashed_password) ==
    row.email = email /\ row.password = hashed_password

\* signup up to the INSERT: what the checks before it return, if anything
SignupChecks(body) ==
    IF body.json = "null"
    THEN Rejected(500, "'NoneType' object has no attribute 'get'")
    ELSE
    LET name     == GetOrEmpty(body.name)
        email    == GetOrEmpty(body.email)
        password == GetOrEmpty(body.password)
    IN  IF name.type # "string" \/ email.type # "string"
        THEN Rejected(500, "object has no attribute 'strip'")
        ELSE IF ~(/\ strip(name.chars) # <<>>
                  /\ strip(email.chars) # <<>>
                  /\ Truthy(password))
        THEN Rejected(400, "All fields required")
        ELSE IF ~Contains(strip(email.chars), "@") \/ ~Contains(strip(email.chars), ".")
        THEN Rejected(400, "Invalid email")
        ELSE IF password.type # "string"
        THEN Rejected(500, "object of type 'int' has no len()")
        ELSE IF Len(password.chars) < 6
        THEN Rejected(400, "Password too short")
        ELSE NoResponse

\* a client sends a signup request; the handler runs up to the INSERT
SignupValidate(c) ==
    /\ apc[c] = "idle"
    /\ \E body \in SignupBodies :
          /\ areq' = [areq EXCEPT ![c] = body]
          /\ aresp' = [aresp EXCEPT ![c] = SignupChecks(body)]
          /\ apc' = [apc EXCEPT ![c] =
                        IF SignupChecks(body) = NoResponse THEN "insert" ELSE "idle"]
    /\ UNCHANGED <<classifyVars, reportVars, predictVars, users, parked, registered>>

\* INSERT INTO users ... ; commit; lastrowid -- or sqlite3.IntegrityError
SignupInsert(c) ==
    /\ apc[c] = "insert"
    /\ LET name  == strip(areq[c].name.chars)
           email == strip(areq[c].email.chars)
           hashed_password == hash_password(areq[c].password.chars)
           user_id == Len(users) + 1
           answer  == Registered(user_id, name, email)
       IN  IF EmailTaken(email)
           THEN /\ aresp' = [aresp EXCEPT ![c] = Rejected(400, "Email already registered")]
                /\ UNCHANGED <<users, registered>>
           ELSE /\ users' = Append(users, UserRow(user_id, name, email, hashed_password))
                /\ aresp' = [aresp EXCEPT ![c] = answer]
                /\ registered' =
                       Append(registered,
                              [id |-> answer.user.id, email |-> answer.user.email,
                               password |-> areq[c].password.chars])
    /\ apc' = [apc EXCEPT ![c] = "idle"]
    /\ UNCHANGED <<classifyVars, reportVars, predictVars, areq, parked>>

\* login: what the handler returns for a body, read on day `today`
LoginAnswer(body, today) ==
    IF body.json = "null"
    THEN Rejected(500, "'NoneType' object has no attribute 'get'")
    ELSE
    LET email    == GetOrEmpty(body.email)
        password == GetOrEmpty(body.password)
    IN  IF email.type # "string"
        THEN Rejected(500, "object has no attribute 'strip'")
        ELSE IF ~(strip(email.chars) # <<>> /\ Truthy(password))
        THEN Rejected(400, "Email and password required")
        ELSE IF password.type # "string"
        THEN Rejected(500, "object has no attribute 'encode'")
        ELSE
        LET found == {i \in 1..Len(users) :
                         CredentialsMatch(users[i], strip(email.chars),
                                          hash_password(password.chars))}
        IN  IF found # {}
            THEN LET user == users[Least(found)]
                 IN  LoggedIn(generate_token(user.id, user.email, today), user)
            ELSE Rejected(401, "Invalid email or password")

\* the whole login handler: one SELECT, no write
Login(c) ==
    /\ apc[c] = "idle"
    /\ \E body \in LoginBodies, today \in 0..MaxDay :
          /\ areq' = [areq EXCEPT ![c] = body]
          /\ aresp' = [aresp EXCEPT ![c] = LoginAnswer(body, today)]
    /\ UNCHANGED <<classifyVars, reportVars, predictVars, users, apc, parked, registered>>

\* ORDER BY created_at DESC LIMIT 5: the five rows inserted last
RecentFive ==
    {[id |-> users[i].id, name |-> users[i].name, email |-> users[i].email] :
        i \in {j \in 1..Len(users) : j > Len(users) - 5}}

\* the whole test_db handler: two SELECTs, no write
TestDb(c) ==
    /\ apc[c] = "idle"
    /\ areq' = [areq EXCEPT ![c] = TestDbRequest]
    /\ aresp' = [aresp EXCEPT ![c] =
                    [returned |-> TRUE, status |-> 200, success |-> TRUE,
                     total_users |-> Len(users), users |-> RecentFive]]
    /\ UNCHANGED <<classifyVars, reportVars, predictVars, users, apc, parked, registered>>

----------------------------------------------------------------------------
(* SpecAuth: two clients sending signup, login and test_db requests in any  *)
(* interleaving.  The database starts empty, as init_db and create_db.py    *)
(* leave it.  predict and generate_report hold no statement that touches    *)
(* users.db; their steps, which leave users alone, are in SpecParallel.     *)

InitAuth ==
    /\ pc = "start"
    /\ probability = NoResult
    /\ image_base64 = <<>>
    /\ hash_value = NoResult
    /\ tumor_info = NoResult
    /\ other_info = NoResult
    /\ again_info = NoResult
    /\ ReportIdle
    /\ PredictIdle
    /\ users = <<>>
    /\ AuthIdle

NextAuth ==
    \/ \E c \in Clients : SignupValidate(c)
    \/ \E c \in Clients : SignupInsert(c)
    \/ \E c \in Clients : Login(c)
    \/ \E c \in Clients : TestDb(c)

SpecAuth == InitAuth /\ [][NextAuth]_vars

----------------------------------------------------------------------------
(* Properties of the users table and the handlers that use it *)

\* a string without its leading and trailing blanks
RECURSIVE DropLeading(_)
DropLeading(chars) ==
    IF chars # <<>> /\ Head(chars) = " " THEN DropLeading(Tail(chars)) ELSE chars

RECURSIVE DropTrailing(_)
DropTrailing(chars) ==
    IF chars # <<>> /\ chars[Len(chars)] = " "
    THEN DropTrailing(SubSeq(chars, 1, Len(chars) - 1)) ELSE chars

Trimmed(chars) == DropTrailing(DropLeading(chars))

\* the characters of a field of a request: those of the string sent, none
\* for a field left out
CharsOf(v) == IF v.type = "string" THEN v.chars ELSE <<>>
IsText(v) == v.type \in {"string", "missing"}

RegisteredEmails == {users[i].email : i \in 1..Len(users)}

\* in this step the handler serving client c returns its answer
Answered(c) ==
    /\ <<apc[c], areq[c], aresp[c]>>' # <<apc[c], areq[c], aresp[c]>>
    /\ aresp'[c] # NoResponse

\* C17: whatever signup, login and test_db requests are served, in whatever
\* interleaving (predict and report requests do not reach the table, see
\* C15), no two rows of the users table share an email and a row,
\* once inserted, is neither removed nor changed; an INSERT succeeds exactly
\* when the email is not yet in the table, so that of two concurrent signups
\* with the same email exactly one is answered 201.
C17_UniqueEmailsAppendOnly ==
    /\ [](\A i, j \in 1..Len(users) :
              /\ users[i].email = users[j].email => i = j
              /\ users[i].id = i)
    /\ [](\A c, d \in Clients :
              (/\ c # d
               /\ aresp[c] # NoResponse /\ aresp[c].status = 201
               /\ aresp[d] # NoResponse /\ aresp[d].status = 201)
                  => aresp[c].user.email # aresp[d].user.email)
    /\ [][/\ Len(users') >= Len(users)
          /\ SubSeq(users', 1, Len(users)) = users
          /\ \A c \in Clients :
                 (apc[c] = "insert" /\ apc'[c] = "idle") =>
                     LET email == Trimmed(areq[c].email.chars)
                     IN  IF email \in RegisteredEmails
                         THEN aresp'[c].status = 400 /\ users' = users
                         ELSE /\ aresp'[c].status = 201
                              /\ Len(users') = Len(users) + 1
                              /\ users'[Len(users')].email = email]_vars

\* two signups with the same trimmed email have both reached their INSERT:
\* one was answered 201, the other 400, and the table holds one row
C17_Witness ==
    /\ areq["c1"] = SignupBody(JStr(NameAnn), JStr(EmailAnn), JStr(PasswordAnn))
    /\ areq["c2"] = SignupBody(JStr(NameBob), JStr(EmailAnnPadded), JStr(PasswordBob))
    /\ aresp["c1"] = Rejected(400, "Email already registered")
    /\ aresp["c2"] = Registered(1, NameBob, EmailAnn)
    /\ users = <<UserRow(1, NameBob, EmailAnn, hash_password(PasswordBob))>>

NoSuchCredentials(c) ==
    /\ areq'[c].kind = "login"
    /\ areq'[c].json = "object"
    /\ IsText(areq'[c].email)
    /\ IsText(areq'[c].password)
    /\ \A i \in 1..Len(users) :
           \/ users[i].email # Trimmed(CharsOf(areq'[c].email))
           \/ users[i].password # [sha256 |-> CharsOf(areq'[c].password)]

NoToken(r) == "token" \notin DOMAIN r

\* C19 (as stated): a login whose email is registered but whose password
\* differs from the one given at signup, or whose email is not registered,
\* is answered 401 without a token, and the table is unchanged.
C19_AsStated ==
    [][\A c \in Clients :
           (Answered(c) /\ NoSuchCredentials(c))
               => /\ aresp'[c].status = 401
                  /\ NoToken(aresp'[c])
                  /\ users' = users]_vars

\* C19 (amended): such a login is answered 401 when its trimmed email and
\* its password are not empty, and 400 when one of them is; in both cases
\* without a token and with the table unchanged.
C19_MismatchRejected ==
    [][\A c \in Clients :
           (Answered(c) /\ NoSuchCredentials(c))
               => /\ aresp'[c].status =
                         IF /\ Trimmed(CharsOf(areq'[c].email)) # <<>>
                            /\ CharsOf(areq'[c].password) # <<>>
                         THEN 401 ELSE 400
                  /\ NoToken(aresp'[c])
                  /\ users' = users]_vars

\* Ann is registered; a login with her email and another password was
\* answered 401, one with her email and an empty password 400
C19_Witness ==
    /\ users = <<RowAnn>>
    /\ areq["c1"] = LoginBody(JStr(EmailAnn), JStr(PasswordBob))
    /\ aresp["c1"] = Rejected(401, "Invalid email or password")
    /\ areq["c2"] = LoginBody(JStr(EmailAnn), JStr(<<>>))
    /\ aresp["c2"] = Rejected(400, "Email and password required")

\* C20: a login with the email and the password of a registered user is
\* answered 200 with a token signed under the server's key whose decoded
\* payload holds that user's id and email and an expiry, and with the same
\* id, name and email in the body.
C20_LoginIssuesToken ==
    [][\A c \in Clients : \A i \in 1..Len(users) :
           (/\ Answered(c)
            /\ areq'[c].kind = "login"
            /\ areq'[c].json = "object"
            /\ areq'[c].email.type = "string"
            /\ areq'[c].password.type = "string"
            /\ users[i].email = Trimmed(areq'[c].email.chars)
            /\ users[i].password = [sha256 |-> areq'[c].password.chars])
               => /\ aresp'[c].status = 200
                  /\ aresp'[c].token.key = "brain-tumor-secret-key-2024"
                  /\ LET payload == jwt_decode(aresp'[c].token, SECRET_KEY)
                     IN  /\ payload.user_id = users[i].id
                         /\ payload.email = users[i].email
                         /\ payload.exp \in 7..(MaxDay + 7)
                  /\ aresp'[c].user =
                         [id |-> users[i].id, name |-> users[i].name,
                          email |-> users[i].email]]_vars

\* Bob registered second (id 2); his login was answered 200 with a token
\* for id 2 and his email
C20_Witness ==
    /\ Len(users) = 2
    /\ users[2].email = EmailBob
    /\ areq["c1"] = LoginBody(JStr(EmailBob), JStr(PasswordAnn))
    /\ aresp["c1"].status = 200
    /\ aresp["c1"].token.payload.user_id = 2
    /\ aresp["c1"].token.payload.email = EmailBob
    /\ aresp["c1"].user = [id |-> 2, name |-> NameBob, email |-> EmailBob]

\* a signup or login request with a missing or malformed field: a body that
\* is not an object, a field that is not a string, an empty (or, for name
\* and email, blank) or absent field, at signup an email without '@' or '.'
\* or a password of fewer than 6 characters
Malformed(req) ==
    /\ req.kind \in {"signup", "login"}
    /\ \/ req.json # "object"
       \/ ~IsText(req.email) \/ ~IsText(req.password)
       \/ Trimmed(CharsOf(req.email)) = <<>>
       \/ CharsOf(req.password) = <<>>
       \/ /\ req.kind = "signup"
          /\ \/ ~IsText(req.name)
             \/ Trimmed(CharsOf(req.name)) = <<>>
             \/ \A i \in 1..Len(CharsOf(req.email)) : CharsOf(req.email)[i] # "@"
             \/ \A i \in 1..Len(CharsOf(req.email)) : CharsOf(req.email)[i] # "."
             \/ Len(CharsOf(req.password)) < 6

\* C21 (as stated): a signup or login request with a missing or malformed
\* field is answered 400 with a message, the table is left as it was and no
\* token is issued.
C21_AsStated ==
    [][\A c \in Clients :
           (Answered(c) /\ Malformed(areq'[c]))
               => /\ aresp'[c].status = 400
                  /\ "message" \in DOMAIN aresp'[c]
                  /\ NoToken(aresp'[c])
                  /\ users' = users]_vars

----------------------------------------------------------------------------
(* SpecParallel: two generate_report requests served by two threads, as    *)
(* app.run serves them, and a predict request served in between at any      *)
(* moment.  Everything generate_report assigns is a local of   *)
(* the call; the locals of the thread that is not running are kept in       *)
(* `parked`, and a context switch exchanges them with those of the running  *)
(* thread.  classify_tumor_type builds its tables anew in every call.       *)

\* the locals of the running call
Locals ==
    [request |-> request, rpc |-> rpc, idx |-> idx,
     positive_count |-> positive_count, negative_count |-> negative_count,
     high_risk_count |-> high_risk_count,
     critical_risk_count |-> critical_risk_count,
     tumor_types_found |-> tumor_types_found,
     elements |-> elements, response |-> response]

\* the locals of a call that has not begun
FreshCall(body) ==
    [request |-> body, rpc |-> "idle", idx |-> 0,
     positive_count |-> 0, negative_count |-> 0,
     high_risk_count |-> 0, critical_risk_count |-> 0,
     tumor_types_found |-> <<>>,
     elements |-> <<>>, response |-> NoResponse]

\* (faulty variant: the counters and the histogram are module-level
\* variables, which both threads share)
SwitchSharingCounters ==
    /\ parked # NoRequest
    /\ parked' = Locals
    /\ request' = parked.request
    /\ rpc' = parked.rpc
    /\ idx' = parked.idx
    /\ elements' = parked.elements
    /\ response' = parked.response
    /\ UNCHANGED <<positive_count, negative_count, high_risk_count,
                   critical_risk_count, tumor_types_found>>
    /\ UNCHANGED <<classifyVars, predictVars, users, authVars>>

\* the other thread is scheduled: each thread finds its own locals again
Switch ==
    /\ parked # NoRequest
    /\ parked' = Locals
    /\ request' = parked.request
    /\ rpc' = parked.rpc
    /\ idx' = parked.idx
    /\ positive_count' = parked.positive_count
    /\ negative_count' = parked.negative_count
    /\ high_risk_count' = parked.high_risk_count
    /\ critical_risk_count' = parked.critical_risk_count
    /\ tumor_types_found' = parked.tumor_types_found
    /\ elements' = parked.elements
    /\ response' = parked.response
    /\ UNCHANGED <<classifyVars, predictVars, users, authVars>>

\* the bodies of the two requests
ParallelProbabilities == {P030, P092}
ParallelImages == {<<ImgA, ImgBad>>, <<ImgUrl>>}
ParallelBodies ==
    {Body(r, i) : r \in ListsUpTo(ParallelProbabilities, MaxItems),
                  i \in ParallelImages}
        \cup {NullBody}

InitParallel ==
    /\ pc = "start"
    /\ probability = NoResult
    /\ image_base64 = <<>>
    /\ hash_value = NoResult
    /\ tumor_info = NoResult
    /\ other_info = NoResult
    /\ again_info = NoResult
    /\ request \in ParallelBodies
    /\ rpc = "idle"
    /\ idx = 0
    /\ positive_count = 0
    /\ negative_count = 0
    /\ high_risk_count = 0
    /\ critical_risk_count = 0
    /\ tumor_types_found = <<>>
    /\ elements = <<>>
    /\ response = NoResponse
    /\ parked \in {FreshCall(body) : body \in ParallelBodies}
    /\ PredictIdle
    /\ users = <<RowAnn>>
    /\ AuthIdle

NextParallel ==
    ReportReceive \/ ReportItem \/ ReportSummary \/ ReportBuild \/ Switch \/ Predict

SpecParallel == InitParallel /\ [][NextParallel]_vars

----------------------------------------------------------------------------
(* Properties of generate_report under parallel requests *)

\* What a request produces when it is served alone, written out from its
\* body: the section of item i, the counts, the histogram, the document.
SectionAlone(body, i) ==
    LET info == classify_tumor_type(body.result[i], body.image[i])
    IN  IF Embeds(body.image[i])
        THEN [kind |-> "result", scan |-> i,
              status |-> status_of(Percent(body.result[i])),
              classification |-> info.type,
              confidence |-> confidence_of(body.result[i]),
              risk_level |-> info.risk_level,
              severity |-> info.severity]
        ELSE [kind |-> "error_text", scan |-> i, classification |-> info.type]

PositivesAlone(body) ==
    {i \in 1..Len(body.result) : FloatGT(body.result[i], P050)}

HistogramAlone(body) ==
    LET label(i) == classify_tumor_type(body.result[i], body.image[i]).type
    IN  [l \in {label(i) : i \in PositivesAlone(body)} |->
            Cardinality({i \in PositivesAlone(body) : label(i) = l})]

SummaryAlone(body) ==
    LET n        == Len(body.result)
        critical == Cardinality({i \in 1..n :
                        FloatLT(EightyFive, Percent(body.result[i]))})
        high     == Cardinality({i \in 1..n :
                        /\ FloatLT(Seventy, Percent(body.result[i]))
                        /\ FloatLE(Percent(body.result[i]), EightyFive)})
        positive == Cardinality(PositivesAlone(body))
    IN  [kind |-> "summary", total |-> n,
         positive |-> positive, positive_pct |-> PercentageOf(positive, n),
         critical |-> critical, critical_pct |-> PercentageOf(critical, n),
         high |-> high, high_pct |-> PercentageOf(high, n),
         negative |-> n - positive, negative_pct |-> PercentageOf(n - positive, n)]

DocumentAlone(body) ==
    <<[kind |-> "patient_info", images_analyzed |-> Len(body.image)]>>
    \o [k \in 1..(2 * Len(body.result)) |->
           IF k % 2 = 1 THEN [kind |-> "image_header", scan |-> (k + 1) \div 2]
           ELSE SectionAlone(body, k \div 2)]
    \o <<SummaryAlone(body)>>
    \o (IF PositivesAlone(body) # {}
        THEN <<[kind |-> "tumor_distribution", cases |-> HistogramAlone(body),
                priority |-> [l \in DOMAIN HistogramAlone(body) |-> priority_of(l)]]>>
        ELSE <<>>)

\* the answers a request can get when served alone (the final build of the
\* document may fail)
OutcomesAlone(body) ==
    IF body = NullBody
    THEN {ServerError("'NoneType' object has no attribute 'get'")}
    ELSE IF Len(body.result) = 0
    THEN {ServerError("division by zero")}
    ELSE IF Len(body.image) < Len(body.result)
    THEN {ServerError("list index out of range")}
    ELSE {PdfFile(DocumentAlone(body)), ServerError("build failed")}

\* C22: two generate_report requests served in parallel do not interfere.
\* However the steps of the two threads interleave, each request is answered
\* with what it gets when served alone: the same sections, summary counts
\* and histogram, or the same failure; a step of one thread leaves the
\* locals of the other as they are, and a context switch changes no value
\* of either.
C22_NoInterference ==
    /\ [](rpc = "returned" => response \in OutcomesAlone(request))
    /\ [](parked.rpc = "returned" =>
              parked.response \in OutcomesAlone(parked.request))
    /\ [][\/ parked' = parked
          \/ parked' = Locals /\ Locals' = parked]_vars

\* both requests have been answered with their documents: one of two items
\* (0.92, and 0.30 whose image failed), one of a single item (0.92)
C22_Witness ==
    /\ request = Body(<<P092, P030>>, <<ImgA, ImgBad>>)
    /\ response = PdfFile(elements)
    /\ Summary.critical = 1
    /\ Summary.negative = 1
    /\ parked.request = Body(<<P092>>, <<ImgUrl>>)
    /\ parked.response = PdfFile(parked.elements)
    /\ parked.critical_risk_count = 1
    /\ parked.negative_count = 0

----------------------------------------------------------------------------
(* Properties of the stored passwords and of signup followed by login *)

\* C23 (as stated): the password column holds a salted hash: a digest, never
\* the characters of the password itself, and no two rows hold the same
\* value, also when their accounts were registered with the same password.
C23_AsStated ==
    \A i, j \in 1..Len(users) :
        /\ DOMAIN users[i].password = {"sha256"}
        /\ i # j => users[i].password # users[j].password

----------------------------------------------------------------------------
(* Further properties of generate_report (one request, SpecReport) *)

\* the risk level of the record classify_tumor_type gives item i
RiskOf(i) == classify_tumor_type(Prob(i), request.image[i]).risk_level

\* C24 (as stated): the 'Critical Risk Cases' count is the number of items
\* whose record has risk level Critical, the 'High Risk Cases' count the
\* number of items whose record has risk level High.
C24_AsStated ==
    HasSummary =>
        /\ Summary.critical = Cardinality({i \in Items : RiskOf(i) = "Critical"})
        /\ Summary.high = Cardinality({i \in Items : RiskOf(i) = "High"})

\* C24 (amended): the counters follow the probability, not the record: the
\* 'Critical Risk Cases' count is the number of items above 85, whose records
\* have risk level Critical or High, and the 'High Risk Cases' count is the
\* number of items above 70 and up to 85, whose records have risk level
\* Moderate-High or Moderate; the remaining positive items have records of
\* risk level Low-Moderate, Low or Uncertain.
C24_TierCounters ==
    HasSummary =>
        /\ Summary.critical =
               Cardinality({i \in Items : RiskOf(i) \in {"Critical", "High"}})
        /\ Summary.high =
               Cardinality({i \in Items : RiskOf(i) \in {"Moderate-High", "Moderate"}})
        /\ Summary.positive - (Summary.critical + Summary.high) =
               Cardinality({i \in Items :
                               RiskOf(i) \in {"Low-Moderate", "Low", "Uncertain"}})
        /\ \A i \in Items :
               /\ RiskOf(i) \in {"Critical", "High"}
                      <=> FloatLT(EightyFive, Percent(Prob(i)))
               /\ RiskOf(i) \in {"Moderate-High", "Moderate"}
                      <=> (/\ FloatLT(Seventy, Percent(Prob(i)))
                           /\ FloatLE(Percent(Prob(i)), EightyFive))

\* a returned document that counts one critical and one high case: the
\* record of the item above 85 has risk level High (its image failed, so the
\* placeholder does not print it), and the section of the item at 78 prints
\* the risk level Moderate-High
C24_Witness ==
    /\ request = Body(<<P092, P078>>, <<ImgBad, ImgA>>)
    /\ response = PdfFile(elements)
    /\ Summary.critical = 1
    /\ Summary.high = 1
    /\ RiskOf(1) = "High"
    /\ elements[5].kind = "result"
    /\ elements[5].risk_level = "Moderate-High"

\* the bucket of the table of classify_tumor_type that returns a label
BucketOfLabel(label) ==
    CHOOSE b \in 1..5 : \E r \in AllRecords : r.type = label /\ b \in BucketsOfInfo(r)

\* URGENT > High > Moderate > Routine
PriorityRank == ("URGENT" :> 4) @@ ("High" :> 3) @@ ("Moderate" :> 2) @@ ("Routine" :> 1)

\* C25 (as stated): in the distribution table of a document the priority is
\* monotone in the probability bucket: a label returned for a higher bucket
\* is never given a lower priority than a label returned for a lower bucket.
C25_AsStated ==
    \A k \in PlacesOf({"tumor_distribution"}) :
        \A a, b \in DOMAIN elements[k].cases :
            BucketOfLabel(a) > BucketOfLabel(b) =>
                PriorityRank[elements[k].priority[a]]
                    >= PriorityRank[elements[k].priority[b]]

\* the sum of the values of a histogram
RECURSIVE SumOf(_)
SumOf(found) ==
    IF DOMAIN found = {} THEN 0
    ELSE LET label == CHOOSE l \in DOMAIN found : TRUE
         IN  found[label] + SumOf([l \in DOMAIN found \ {label} |-> found[l]])

\* the counters of the loop
Counters ==
    <<positive_count, negative_count, high_risk_count, critical_risk_count>>

\* C26: after every iteration of the item loop and at its end, positive_count
\* + negative_count is the number of items processed so far,
\* critical_risk_count + high_risk_count <= positive_count, the values of the
\* label histogram sum to positive_count, and every counter is non-negative
\* and never decreases.
C26_LoopInvariant ==
    /\ [](/\ positive_count + negative_count = idx
          /\ critical_risk_count + high_risk_count <= positive_count
          /\ SumOf(tumor_types_found) = positive_count
          /\ \A k \in 1..4 : Counters[k] >= 0
          /\ HasSummary =>
                 /\ idx = Len(request.result)
                 /\ Summary.positive + Summary.negative = Summary.total
                 /\ Summary.critical + Summary.high <= Summary.positive)
    /\ [][/\ \A k \in 1..4 : Counters'[k] >= Counters[k]
          /\ idx' >= idx
          /\ \A label \in DOMAIN tumor_types_found :
                 /\ label \in DOMAIN tumor_types_found'
                 /\ tumor_types_found'[label] >= tumor_types_found[label]]_vars

\* the loop has processed both items of a batch whose items (0.92 twice, the
\* same image) carry the same label: 2 positive, 2 critical, the label twice
C26_Witness ==
    /\ rpc = "loop"
    /\ request = Body(<<P092, P092>>, <<ImgA, ImgA>>)
    /\ idx = 2
    /\ positive_count = 2
    /\ negative_count = 0
    /\ critical_risk_count = 2
    /\ tumor_types_found = ("Glioblastoma (Grade IV Glioma)" :> 2)

\* C27: the positive flag and the classification agree for every item: an
\* item is counted positive (probability > 0.5) exactly when
\* classify_tumor_type returns a record other than 'No Tumor Detected'; the
\* status line of its section is 'NEGATIVE - NO TUMOR' exactly when the
\* record is 'No Tumor Detected'; and the label histogram never contains
\* 'No Tumor Detected'.
C27_FlagAgreesWithRecord ==
    /\ \A i \in 1..idx :
           FloatGT(Prob(i), P050) <=> LabelOf(i) # "No Tumor Detected"
    /\ positive_count =
           Cardinality({i \in 1..idx : LabelOf(i) # "No Tumor Detected"})
    /\ \A k \in ResultSections :
           /\ elements[k].status = "NEGATIVE - NO TUMOR"
                  <=> elements[k].classification = "No Tumor Detected"
           /\ elements[k].classification = LabelOf(elements[k].scan)
    /\ "No Tumor Detected" \notin DOMAIN tumor_types_found

\* a returned document for the probabilities 0.5 and the least double above
\* it: the first item is negative with the record 'No Tumor Detected', the
\* second positive with the indeterminate record
C27_Witness ==
    /\ request = Body(<<P050, P050Up>>, <<ImgA, ImgA>>)
    /\ response = PdfFile(elements)
    /\ positive_count = 1
    /\ negative_count = 1
    /\ elements[3].status = "NEGATIVE - NO TUMOR"
    /\ elements[3].classification = "No Tumor Detected"
    /\ elements[5].status = "POSITIVE - REQUIRES REVIEW"
    /\ tumor_types_found = ("Abnormal Growth - Indeterminate Type" :> 1)

\* C28: once a signup for (email, password) has been answered 201 with user
\* id i, every later login with that email and password is answered 200 with
\* user id i and that email, whatever signups (successful or rejected),
\* logins and test_db requests are served in between; the ids answered by
\* successful signups increase in signup order, and so are pairwise distinct.
C28_SignupThenLogin ==
    /\ [](\A m, n \in 1..Len(registered) :
              m < n => registered[m].id < registered[n].id)
    /\ [][\A d \in Clients : \A n \in 1..Len(registered) :
              (/\ Answered(d)
               /\ areq'[d].kind = "login"
               /\ areq'[d].json = "object"
               /\ areq'[d].email.type = "string"
               /\ areq'[d].password.type = "string"
               /\ Trimmed(areq'[d].email.chars) = registered[n].email
               /\ areq'[d].password.chars = registered[n].password)
                  => /\ aresp'[d].status = 200
                     /\ aresp'[d].user.id = registered[n].id
                     /\ aresp'[d].user.email = registered[n].email]_vars

\* Ann signed up first (id 1), Bob second (id 2); a login of Ann was
\* answered 200 with id 1, Bob's signup being the last request of the other
\* client
C28_Witness ==
    /\ Len(registered) = 2
    /\ registered[1] = [id |-> 1, email |-> EmailAnn, password |-> PasswordAnn]
    /\ registered[2].id = 2
    /\ areq["c2"] = SignupBody(JStr(NameBob), JStr(EmailBob), JStr(PasswordAnn))
    /\ aresp["c2"] = Registered(2, NameBob, EmailBob)
    /\ areq["c1"] = LoginBody(JStr(EmailAnn), JStr(PasswordAnn))
    /\ aresp["c1"].status = 200
    /\ aresp["c1"].user = [id |-> 1, name |-> NameAnn, email |-> EmailAnn]

\* the processed items whose section is the error placeholder
FailedItems == {i \in 1..idx : elements[(2 * i) + 1].kind = "error_text"}

\* C29: the counts do not depend on whether the image of an item can be
\* embedded.  After every iteration the counters and the histogram are what
\* the probabilities and the labels of the processed items give, the items
\* whose image failed included; the summary counts every item, placeholder
\* or full section, and an item with a placeholder brings the same counts as
\* its probability and label bring with a full section.
C29_CountsIgnoreEmbedding ==
    LET done     == 1..idx
        positive == {i \in done : FloatGT(Prob(i), P050)}
    IN  /\ positive_count = Cardinality(positive)
        /\ negative_count = Cardinality(done \ positive)
        /\ critical_risk_count =
               Cardinality({i \in done : FloatLT(EightyFive, Percent(Prob(i)))})
        /\ high_risk_count =
               Cardinality({i \in done : /\ FloatLT(Seventy, Percent(Prob(i)))
                                         /\ FloatLE(Percent(Prob(i)), EightyFive)})
        /\ DOMAIN tumor_types_found = {LabelOf(i) : i \in positive}
        /\ \A label \in DOMAIN tumor_types_found :
               tumor_types_found[label] =
                   Cardinality({i \in positive : LabelOf(i) = label})
        /\ \A i \in FailedItems :
               /\ elements[(2 * i) + 1].classification = LabelOf(i)
               /\ i \in positive => LabelOf(i) \in DOMAIN tumor_types_found
        /\ HasSummary =>
               /\ Summary.total = Cardinality(FailedItems) + Cardinality(ResultSections)
               /\ Summary.positive = positive_count
               /\ Summary.negative = negative_count
               /\ Summary.critical = critical_risk_count
               /\ Summary.high = high_risk_count

\* a returned document of two placeholders (both images failed): the summary
\* counts 2 scans, 2 positive, 1 critical, 1 high, and the histogram holds
\* both labels
C29_Witness ==
    /\ request = Body(<<P078, P092>>, <<ImgBad, ImgBad>>)
    /\ response = PdfFile(elements)
    /\ FailedItems = {1, 2}
    /\ Summary.total = 2
    /\ Summary.positive = 2
    /\ Summary.critical = 1
    /\ Summary.high = 1
    /\ Cardinality(DOMAIN tumor_types_found) = 2

\* the per-scan sections of the document, full or placeholder
ScanSections ==
    {k \in 1..Len(elements) : elements[k].kind \in {"result", "error_text"}}

\* C30: in every returned report the 'Images Analyzed' value of the patient
\* table, the 'Total Scans Analyzed' value of the summary and the number of
\* per-scan sections are equal, whatever the lengths of the two lists of the
\* request.
C30_AsStated ==
    response = PdfFile(elements) =>
        /\ elements[1].images_analyzed = Summary.total
        /\ Summary.total = Cardinality(ScanSections)

====
